---- MODULE Spec2Model ----
(***************************************************************************)
(* Milcodec covert-channel audio codec (src/Milcodec): the Studio's        *)
(* CryptoHelper and SteganographyEngine and the DSSSMasker.                *)
(*                                                                         *)
(* Numbers.  Audio samples are floats in the source.  Here a sample is an  *)
(* integer count of 1/UNIT, a waveform is a record [samples, gain] whose   *)
(* n-th value is samples[n] * gain[1] / gain[2], and the carrier sine is   *)
(* SinQ, a 64-step table of 100*sin.  Sums and products are exact on these *)
(* integers; only the sine and the amplitude 0.5*sqrt(10^(snr/10)) are     *)
(* rounded (to 1/100 and 1/1000).                                          *)
(***************************************************************************)
EXTENDS Integers, Sequences, FiniteSets, TLC

VARIABLES
  \* SteganographyEngine (Studio): snr_db and the last embed / extract call
  engine_snr_db, snr_request, carrier_audio, embed_message, embed_rate, embed_bits,
  stego_audio, decode_rate, extracted_bits, extracted_bytes, codec_pc,
  \* DSSSMasker: snr_db and the request that set it
  masker_snr_db, masker_request,
  \* DSSSMasker: the last generate_masked_audio ("noise") or
  \* generate_with_carrier ("carrier") call and the extract_from_audio after it
  masker_carrier, masker_payload, masker_output, masker_pc,
  masker_mode, masker_bits, masker_extracted,
  \* numpy's global random state, as the number of the next draw
  rng_state,
  \* CryptoHelper: the build, the last encrypt call and the last decrypt call
  crypto_available, seal_plaintext, seal_password, seal_salt, seal_nonce, seal_result,
  open_blob, open_password, open_result, decode_status, crypto_pc,
  \* callers that share one engine, one masker and numpy's random state: for
  \* each caller its position, its kind of call, the SNR it asks for, the
  \* set_snr request in force when it encoded, its carrier array and its result
  call_pc, call_kind, call_snr, call_request, call_carrier, call_result, rng_start,
  \* StudioWindow: the loaded carrier's rate, the WAV file do_encode saved,
  \* the waveform on_stego_loaded keeps, what do_decode shows, the position
  carrier_sample_rate, wav_file, loaded_stego, decode_result, studio_pc,
  \* Commander and Receiver: the receiver's build, its CryptoEngine, the
  \* Commander's EncryptionCore, the last packet built and what
  \* decrypt_payload returned for it
  rx_crypto_available, is_burned, private_key, messages_decrypted,
  session_count, packet_plaintext, packet_target, packet_priority, packet_blob,
  packet_result, packet_pc,
  \* the Receiver's SignalProcessor and window: the processor thread's
  \* position, the chunk it took and what decrypt_payload returned to it, the
  \* queue the audio thread fills, the counters, what was sent to the feed,
  \* the last statistics, the GUI thread's position in panic_wipe, and the
  \* counters as they stood when burn() returned
  is_running, data_queue, injected, packets_received, packets_decoded, feed, stats,
  proc_pc, proc_chunk, proc_result, gui_pc, burn_snapshot,
  \* the Scheduler: the local clock in hours, self.state["last_runs"], the
  \* state file, the due tasks run_due_tasks still has to run, the hour and
  \* the verdicts of its last round of is_task_due, and for each interval
  \* and daily task the run recorded before the last one; the host's clock
  \* (the hours it is ahead of Istanbul's, the hour the scheduler started
  \* at) and how the last run_task ended
  sched_now, last_runs, state_file, due_tasks, checked_at, due_found, prev_runs, sched_pc,
  host_clock, run_result,
  \* one stage of the codec called on its own: the stage, the payload and
  \* bits it was given, the sample rate, the chips or samples it was given,
  \* and what it returned
  stage_op, stage_payload, stage_bits, stage_rate, stage_samples, stage_out

codecVars == << engine_snr_db, snr_request, carrier_audio, embed_message, embed_rate,
                embed_bits, stego_audio, decode_rate, extracted_bits, extracted_bytes,
                codec_pc >>
maskerVars == << masker_snr_db, masker_request, masker_carrier, masker_payload,
                 masker_output, masker_pc, masker_mode, masker_bits, masker_extracted,
                 rng_state >>
cryptoVars == << crypto_available, seal_plaintext, seal_password, seal_salt, seal_nonce,
                 seal_result, open_blob, open_password, open_result, decode_status,
                 crypto_pc >>
sessionVars == << call_pc, call_kind, call_snr, call_request, call_carrier, call_result,
                  rng_start >>
\* the variables of the parts added after the codec, the masker and the envelope
studioVars == << carrier_sample_rate, wav_file, loaded_stego, decode_result, studio_pc >>
rxCryptoVars == << rx_crypto_available, is_burned, private_key, messages_decrypted >>
packetVars == << session_count, packet_plaintext, packet_target, packet_priority,
                 packet_blob, packet_result, packet_pc >>
processorVars == << is_running, data_queue, injected, packets_received, packets_decoded,
                   feed, stats, proc_pc, proc_chunk, proc_result, gui_pc, burn_snapshot >>
schedulerVars == << sched_now, last_runs, state_file, due_tasks, checked_at, due_found,
                   prev_runs, sched_pc, host_clock, run_result >>
stageVars == << stage_op, stage_payload, stage_bits, stage_rate, stage_samples, stage_out >>
appVars == << sessionVars, studioVars, rxCryptoVars, packetVars, processorVars,
              schedulerVars, stageVars >>
vars == << codecVars, maskerVars, cryptoVars, appVars >>

(***************************************************************************)
(* Bounds of the model.                                                    *)
(***************************************************************************)
\* longest payload enumerated byte by byte
MaxLen == 2
\* requests to set_snr range this far beyond the legal range on either side
SnrMargin == 4

(***************************************************************************)
(* Program constants.                                                      *)
(***************************************************************************)
SAMPLE_RATE == 44100
CARRIER_FREQ == 12000
DEFAULT_SNR == -20
SNR_MIN == -30
SNR_MAX == -10
\* range(32 + 8 * 256): "Max 256 byte message + length"
MaxMessageBytes == 256
HeaderBits == 32
\* one sample value 1.0: the carrier sine is kept in 1/100 and the signal
\* amplitude in 1/1000, so their product is a sample in 1/UNIT
UNIT == 100 * 1000

PNC_KEY ==
  << 1, 1, 1, 1, 1, -1, -1, -1, 1, 1, -1, 1, 1, 1, -1, 1,
     -1, 1, -1, -1, -1, -1, 1, -1, -1, 1, -1, 1, 1, -1, -1 >>

SPREADING_FACTOR == Len(PNC_KEY)

(***************************************************************************)
(* Arithmetic helpers.                                                     *)
(***************************************************************************)
Min(a, b) == IF a <= b THEN a ELSE b
Max(a, b) == IF a >= b THEN a ELSE b
Abs(a) == IF a < 0 THEN -a ELSE a

RECURSIVE GCD(_, _)
GCD(a, b) == IF b = 0 THEN a ELSE GCD(b, a % b)

\* a/b = c/d for b, d > 0, by Euclid's algorithm (no products, so no overflow)
RECURSIVE RatEq(_, _, _, _)
RatEq(a, b, c, d) ==
  IF (a \div b) # (c \div d) THEN FALSE
  ELSE IF (a % b) = 0 \/ (c % d) = 0 THEN (a % b) = 0 /\ (c % d) = 0
  ELSE RatEq(b, a % b, d, c % d)

\* np.max(np.abs(x)) of a non-empty array
Peak(s) ==
  LET mags == {Abs(s[n]) : n \in DOMAIN s}
  IN  CHOOSE m \in mags : \A x \in mags : x <= m

(***************************************************************************)
(* The carrier sine, np.sin(2 * np.pi * 12000 * t) with                    *)
(* t = np.linspace(0, L / sample_rate, L): t[n] = n * (L/rate) / (L - 1).  *)
(***************************************************************************)
\* 100 * sin(2 pi (k + 1/2) / 64), k = 0..15
SinQuarter == << 5, 15, 24, 34, 43, 51, 60, 67, 74, 80, 86, 90, 94, 97, 99, 100 >>

\* the steps of one cycle of the sine table
SinSteps == 4 * Len(SinQuarter)

\* 100 * sin of num/den cycles; exactly 0 only at whole half cycles
SinQ(num, den) ==
  LET frac == num % den
      idx == (frac * SinSteps) \div den
      q == idx % 16
      mag == IF (idx \div 16) % 2 = 0 THEN SinQuarter[q + 1] ELSE SinQuarter[16 - q]
  IN  IF frac = 0 \/ 2 * frac = den THEN 0
      ELSE IF idx < 32 THEN mag ELSE -mag

\* sample n (from 0) of the carrier over an array of L samples.  The phase is
\* 12000 * n * L / (rate * (L - 1)) cycles; with k/m = 12000/rate in lowest
\* terms, k*n*L = k*n*(L-1) + k*n, reduced modulo m*(L-1) term by term.
CarrierWave(n, L, sample_rate) ==
  IF L <= 1 THEN 0
  ELSE LET g == GCD(CARRIER_FREQ, sample_rate)
           k == CARRIER_FREQ \div g
           m == sample_rate \div g
           den == m * (L - 1)
       IN  SinQ((((k * n) % m) * (L - 1) + ((k * n) % den)) % den, den)

(***************************************************************************)
(* BitFramer, Spreader, Modulator (embed_in_audio, DSSSMasker helpers).    *)
(***************************************************************************)
\* (byte >> (7 - i)) & 1 for i in range(8), byte by byte
BytesToBits(data) ==
  [b \in 1..(8 * Len(data)) |->
     (data[((b - 1) \div 8) + 1] \div (2 ^ (7 - ((b - 1) % 8)))) % 2]

\* mutant: the length header written little-endian
LengthBytesLittleEndian(n) ==
  << n % 256, (n \div 256) % 256, (n \div 65536) % 256, (n \div 16777216) % 256 >>

\* len(message_bytes).to_bytes(4, 'big')
LengthBytes(n) ==
  << (n \div 16777216) % 256, (n \div 65536) % 256, (n \div 256) % 256, n % 256 >>

FrameBytes(message_bytes) == LengthBytes(Len(message_bytes)) \o message_bytes

FrameBits(message_bytes) == BytesToBits(FrameBytes(message_bytes))

\* mutant: on-off chips, scalar = bit
SpreadBitsOnOff(bits) ==
  [c \in 1..(SPREADING_FACTOR * Len(bits)) |->
     PNC_KEY[((c - 1) % SPREADING_FACTOR) + 1] * bits[((c - 1) \div SPREADING_FACTOR) + 1]]

\* spread_signal.extend(PNC_KEY * scalar) for each bit
SpreadBits(bits) ==
  [c \in 1..(SPREADING_FACTOR * Len(bits)) |->
     PNC_KEY[((c - 1) % SPREADING_FACTOR) + 1]
       * (IF bits[((c - 1) \div SPREADING_FACTOR) + 1] = 1 THEN 1 ELSE -1)]

\* mutant: round(sample_rate * 0.001)
SamplesPerChipRounded(sample_rate) == (sample_rate + 500) \div 1000

\* int(sample_rate * 0.001)
SamplesPerChip(sample_rate) == sample_rate \div 1000

\* np.repeat(spread_signal, samples_per_chip) * carrier_wave, in 1/100
Modulate(spread_signal, sample_rate) ==
  LET spc == SamplesPerChip(sample_rate)
      L == Len(spread_signal) * spc
  IN  [n \in 1..L |-> spread_signal[((n - 1) \div spc) + 1] * CarrierWave(n - 1, L, sample_rate)]

\* 1000 * sqrt(10 ** (snr_db / 10)) * 0.5 for snr_db = -30 .. -10
AmpTable ==
  << 16, 18, 20, 22, 25, 28, 32, 35, 40, 45, 50, 56, 63, 71, 79, 89, 100, 112, 126,
     141, 158 >>

SignalAmplitude(snr_db) == AmpTable[snr_db - SNR_MIN + 1]

\* mutant: only the upper bound applied
ClampSnrUpperOnly(snr_db) == Min(SNR_MAX, snr_db)

\* max(-30, min(-10, snr_db))
ClampSnr(snr_db) == Max(SNR_MIN, Min(SNR_MAX, snr_db))

\* no waveform yet
NoAudio == [status |-> "none", samples |-> << >>, gain |-> <<1, UNIT>>]

\* mutant: the modulated signal repeated to fill the whole carrier
EmbedInAudioLooped(carrier, message_bytes, sample_rate, snr_db) ==
  LET modulated == Modulate(SpreadBits(FrameBits(message_bytes)), sample_rate)
      output == [n \in 1..Len(carrier) |->
                   carrier[n]
                     + (IF Len(modulated) > 0
                        THEN modulated[((n - 1) % Len(modulated)) + 1] * SignalAmplitude(snr_db)
                        ELSE 0)]
      max_val == Peak(output)
  IN  IF Len(carrier) = 0 THEN [status |-> "ValueError", samples |-> << >>, gain |-> <<1, UNIT>>]
      ELSE IF max_val > UNIT
           THEN [status |-> "ok", samples |-> output, gain |-> <<99, 100 * max_val>>]
           ELSE [status |-> "ok", samples |-> output, gain |-> <<1, UNIT>>]

(***************************************************************************)
(* SteganographyEngine.embed_in_audio.  The result is the output waveform, *)
(* or the error numpy raises for np.max of an empty array.                 *)
(***************************************************************************)
EmbedInAudio(carrier, message_bytes, sample_rate, snr_db) ==
  LET modulated == Modulate(SpreadBits(FrameBits(message_bytes)), sample_rate)
      embedded == Min(Len(modulated), Len(carrier))
      output == [n \in 1..Len(carrier) |->
                   carrier[n]
                     + (IF n <= embedded THEN modulated[n] * SignalAmplitude(snr_db) ELSE 0)]
      max_val == Peak(output)
  IN  IF Len(carrier) = 0 THEN [status |-> "ValueError", samples |-> << >>, gain |-> <<1, UNIT>>]
      ELSE IF max_val > UNIT
           THEN [status |-> "ok", samples |-> output, gain |-> <<99, 100 * max_val>>]
           ELSE [status |-> "ok", samples |-> output, gain |-> <<1, UNIT>>]

(***************************************************************************)
(* DSSSMasker.generate_with_carrier.  The masker runs at SAMPLE_RATE and   *)
(* embeds the payload's bits with no length header.                        *)
(***************************************************************************)
RECURSIVE SumOver(_, _)
SumOver(S, f) ==
  IF S = {} THEN 0
  ELSE LET x == CHOOSE y \in S : TRUE IN f[x] + SumOver(S \ {x}, f)

\* np.sqrt(np.mean(carrier_audio ** 2)) in 1/100, rounded down, the samples
\* taken in 1/100 as well
CarrierRms(carrier) ==
  LET coarse(n) == Abs(carrier[n]) \div (UNIT \div 100)
      levels == {coarse(n) : n \in DOMAIN carrier}
      weight == [v \in levels |->
                   v * v * Cardinality({n \in DOMAIN carrier : coarse(n) = v})]
      mean == SumOver(levels, weight) \div Len(carrier)
  IN  IF Len(carrier) = 0 THEN 0
      ELSE CHOOSE r \in 0..200 : r * r <= mean /\ mean < (r + 1) * (r + 1)

\* modulated * signal_amplitude in 1/UNIT, with signal_amplitude =
\* sqrt(carrier_power * 10 ** (snr_db / 10)) = rms * 2 * SignalAmplitude / 1000
MaskerScaled(sample, rms, snr_db) ==
  LET product == Abs(sample) * rms * 2 * SignalAmplitude(snr_db)
  IN  IF sample < 0 THEN -(product \div 100) ELSE product \div 100

GenerateWithCarrier(carrier, payload_bytes, snr_db) ==
  LET modulated == Modulate(SpreadBits(BytesToBits(payload_bytes)), SAMPLE_RATE)
      rms == CarrierRms(carrier)
      embedded == Min(Len(modulated), Len(carrier))
      output == [n \in 1..Len(carrier) |->
                   carrier[n]
                     + (IF n <= embedded THEN MaskerScaled(modulated[n], rms, snr_db) ELSE 0)]
      max_val == Peak(output)
  IN  IF Len(carrier) = 0 THEN [status |-> "ValueError", samples |-> << >>, gain |-> <<1, UNIT>>]
      ELSE IF max_val > UNIT
           THEN [status |-> "ok", samples |-> output, gain |-> <<99, 100 * max_val>>]
           ELSE [status |-> "ok", samples |-> output, gain |-> <<1, UNIT>>]

(***************************************************************************)
(* DSSSMasker.generate_masked_audio.  The modulated signal and the noise   *)
(* are kept in 1/100; the gain of the result carries the rescaling.        *)
(***************************************************************************)
\* floor of the square root
ISqrt(x) == CHOOSE r \in 0..x : r * r <= x /\ x < (r + 1) * (r + 1)

\* np.mean(modulated ** 2), in 1/10000 (nan for an empty array: not used then)
SigPower(modulated) ==
  LET levels == {Abs(modulated[n]) : n \in DOMAIN modulated}
      weight == [v \in levels |->
                   v * v * Cardinality({n \in DOMAIN modulated : Abs(modulated[n]) = v})]
  IN  IF Len(modulated) = 0 THEN 0 ELSE SumOver(levels, weight) \div Len(modulated)

\* noise_std = np.sqrt(sig_power / 10 ** (snr_db / 10)) in 1/100; a power of 0
\* is replaced by 1e-9, whose root is below 1/100 at every SNR
NoiseStd(modulated, snr_db) ==
  (ISqrt(SigPower(modulated)) * 500) \div SignalAmplitude(snr_db)

\* the standard normal draws, in 1/10, that np.random.normal takes from the
\* global state: draw 0 is all zeros, the others grow with the state
NormalDraw(state, n) ==
  IF state = 0 THEN 0
  ELSE LET mag == IF n % 3 = 0 THEN 15 * state ELSE 2 * state
       IN  IF (n \div 2) % 2 = 0 THEN mag ELSE -mag

\* np.random.normal(0, noise_std, length)
Noise(state, noise_std, length) ==
  [n \in 1..length |-> (noise_std * NormalDraw(state, n)) \div 10]

\* mutant: the rescaling to 0.95 left out
ApplyNoiseMaskingUnscaled(modulated, snr_db, state) ==
  LET noise == Noise(state, NoiseStd(modulated, snr_db), Len(modulated))
      masked == [n \in 1..Len(modulated) |-> modulated[n] + noise[n]]
  IN  IF Len(modulated) = 0 THEN [status |-> "ValueError", samples |-> << >>, gain |-> <<1, 100>>]
      ELSE [status |-> "ok", samples |-> masked, gain |-> <<1, 100>>]

\* DSSSMasker._apply_noise_masking; np.max of an empty array raises ValueError
ApplyNoiseMasking(modulated, snr_db, state) ==
  LET noise == Noise(state, NoiseStd(modulated, snr_db), Len(modulated))
      masked == [n \in 1..Len(modulated) |-> modulated[n] + noise[n]]
      max_val == Peak(masked)
  IN  IF Len(modulated) = 0 THEN [status |-> "ValueError", samples |-> << >>, gain |-> <<1, 100>>]
      ELSE IF max_val > 0
           THEN [status |-> "ok", samples |-> masked, gain |-> <<95, 100 * max_val>>]
           ELSE [status |-> "ok", samples |-> masked, gain |-> <<1, 100>>]

\* DSSSMasker.generate_masked_audio
GenerateMaskedAudio(payload_bytes, snr_db, state) ==
  ApplyNoiseMasking(Modulate(SpreadBits(BytesToBits(payload_bytes)), SAMPLE_RATE),
                    snr_db, state)

(***************************************************************************)
(* SteganographyEngine.extract_from_audio.                                 *)
(***************************************************************************)
MaxBits == HeaderBits + 8 * MaxMessageBytes

\* sum over j < count of audio[first + j] * carrier[first + j]  (first from 0)
RECURSIVE DemodSum(_, _, _, _, _)
DemodSum(audio, first, count, L, sample_rate) ==
  IF count = 0 THEN 0
  ELSE audio[first + count] * CarrierWave(first + count - 1, L, sample_rate)
         + DemodSum(audio, first, count - 1, L, sample_rate)

\* np.sum(chips * PNC_KEY) for the window at `position`, times samples_per_chip
\* (np.mean divides every chip by the same positive count)
RECURSIVE Correlation(_, _, _, _, _)
Correlation(audio, position, i, L, sample_rate) ==
  IF i = 0 THEN 0
  ELSE LET spc == SamplesPerChip(sample_rate)
       IN  PNC_KEY[i] * DemodSum(audio, position + (i - 1) * spc, spc, L, sample_rate)
             + Correlation(audio, position, i - 1, L, sample_rate)

\* mutant: a correlation of exactly zero read as bit 1
DemodulateBitsNonNegative(samples, sample_rate, limit) ==
  LET spc == SamplesPerChip(sample_rate)
      pn_samples == SPREADING_FACTOR * spc
      L == Len(samples)
      count == IF pn_samples = 0 THEN limit ELSE Min(limit, L \div pn_samples)
  IN  [b \in 1..count |->
         IF pn_samples = 0 THEN 0
         ELSE IF Correlation(samples, (b - 1) * pn_samples, SPREADING_FACTOR, L, sample_rate) >= 0
              THEN 1 ELSE 0]

\* the bits the loop appends: one per whole window, at most `limit`; with
\* samples_per_chip = 0 every chunk is empty, its mean is nan and the bit is 0
DemodulateBits(samples, sample_rate, limit) ==
  LET spc == SamplesPerChip(sample_rate)
      pn_samples == SPREADING_FACTOR * spc
      L == Len(samples)
      count == IF pn_samples = 0 THEN limit ELSE Min(limit, L \div pn_samples)
  IN  [b \in 1..count |->
         IF pn_samples = 0 THEN 0
         ELSE IF Correlation(samples, (b - 1) * pn_samples, SPREADING_FACTOR, L, sample_rate) > 0
              THEN 1 ELSE 0]

\* mutant: the bits of a byte reassembled least-significant first
BitsToBytesLsbFirst(bits) ==
  [k \in 1..(Len(bits) \div 8) |->
     LET b(j) == bits[8 * (k - 1) + j]
     IN  b(1) + 2 * b(2) + 4 * b(3) + 8 * b(4) + 16 * b(5) + 32 * b(6) + 64 * b(7) + 128 * b(8)]

\* sum(b << (7 - j)) over each whole group of 8 bits
BitsToBytes(bits) ==
  [k \in 1..(Len(bits) \div 8) |->
     LET b(j) == bits[8 * (k - 1) + j]
     IN  128 * b(1) + 64 * b(2) + 32 * b(3) + 16 * b(4) + 8 * b(5) + 4 * b(6) + 2 * b(7) + b(8)]

(***************************************************************************)
(* DSSSMasker.extract_from_audio, at SAMPLE_RATE.  A correlation is the    *)
(* sum of 31 chip sums; it is added up in two parts, chip \div SplitBase   *)
(* and chip % SplitBase, and its sign read from the two.                   *)
(***************************************************************************)
\* "Extract up to 4096 bits (512 bytes max message)"
MaskerMaxBits == 4096

SplitBase == 2 ^ 15

RECURSIVE SignedSum(_, _, _)
SignedSum(parts, signs, i) ==
  IF i = 0 THEN 0 ELSE signs[i] * parts[i] + SignedSum(parts, signs, i - 1)

\* np.sum(chips * PNC_KEY) > 0 for the window at `position`
CorrelationPositive(audio, position, L, sample_rate) ==
  LET spc == SamplesPerChip(sample_rate)
      chips == [i \in 1..SPREADING_FACTOR |->
                  DemodSum(audio, position + (i - 1) * spc, spc, L, sample_rate)]
      high == SignedSum([i \in 1..SPREADING_FACTOR |-> chips[i] \div SplitBase],
                        PNC_KEY, SPREADING_FACTOR)
      low == SignedSum([i \in 1..SPREADING_FACTOR |-> chips[i] % SplitBase],
                       PNC_KEY, SPREADING_FACTOR)
      whole == high + (low \div SplitBase)
  IN  whole > 0 \/ (whole = 0 /\ low % SplitBase > 0)

\* mutant: the last, partial window demodulated as well
MaskerDemodulateBitsPartial(samples, limit) ==
  LET pn_samples == SPREADING_FACTOR * SamplesPerChip(SAMPLE_RATE)
      L == Len(samples)
  IN  [b \in 1..Min(limit, (L + pn_samples - 1) \div pn_samples) |-> 0]

\* the bits the while loop appends: one per whole window, at most `limit`
MaskerDemodulateBits(samples, limit) ==
  LET pn_samples == SPREADING_FACTOR * SamplesPerChip(SAMPLE_RATE)
      L == Len(samples)
  IN  [b \in 1..Min(limit, L \div pn_samples) |->
         IF CorrelationPositive(samples, (b - 1) * pn_samples, L, SAMPLE_RATE) THEN 1 ELSE 0]

\* int.from_bytes(bytes(extracted_bytes[:4]), 'big'), saturated at 65536: the
\* value only bounds a slice of at most MaxMessageBytes bytes
MessageLength(extracted) ==
  IF extracted[1] > 0 \/ extracted[2] > 0 THEN 65536
  ELSE 256 * extracted[3] + extracted[4]

\* mutant: everything after the header, extracted_bytes[4:]
ExtractMessageToEnd(extracted) ==
  IF Len(extracted) < 4 THEN << >> ELSE SubSeq(extracted, 5, Len(extracted))

\* the slice extracted_bytes[4:4 + message_length]; a slice stops at the end
ExtractMessage(extracted) ==
  IF Len(extracted) < 4 THEN << >>
  ELSE SubSeq(extracted, 5, Min(4 + MessageLength(extracted), Len(extracted)))


(***************************************************************************)
(* The engine as a state machine: set_snr, embed_in_audio, then            *)
(* extract_from_audio on the waveform embed_in_audio returned.             *)
(***************************************************************************)
\* SteganographyEngine.__init__
EngineInit ==
  /\ engine_snr_db = DEFAULT_SNR
  /\ snr_request = DEFAULT_SNR
  /\ carrier_audio = << >>
  /\ embed_message = << >>
  /\ embed_rate = SAMPLE_RATE
  /\ embed_bits = << >>
  /\ stego_audio = NoAudio
  /\ decode_rate = SAMPLE_RATE
  /\ extracted_bits = << >>
  /\ extracted_bytes = << >>
  /\ codec_pc = "idle"

\* SteganographyEngine.set_snr
SetSnr(v) ==
  /\ engine_snr_db' = ClampSnr(v)
  /\ snr_request' = v
  /\ UNCHANGED << carrier_audio, embed_message, embed_rate, embed_bits, stego_audio,
                  decode_rate, extracted_bits, extracted_bytes, codec_pc >>

\* DSSSMasker.__init__(snr_db = v)
MaskerInit(v) ==
  /\ masker_snr_db = ClampSnr(v)
  /\ masker_request = v
  /\ masker_carrier = << >>
  /\ masker_payload = << >>
  /\ masker_output = NoAudio
  /\ masker_pc = "idle"
  /\ masker_mode = "none"
  /\ masker_bits = << >>
  /\ masker_extracted = << >>

\* DSSSMasker.set_snr
MaskerSetSnr(v) ==
  /\ masker_snr_db' = ClampSnr(v)
  /\ masker_request' = v
  /\ UNCHANGED << masker_carrier, masker_payload, masker_output, masker_pc,
                  masker_mode, masker_bits, masker_extracted, rng_state >>

\* output = masker.generate_with_carrier(payload, carrier)
MaskerEmbed(carrier, payload) ==
  /\ masker_pc = "idle"
  /\ masker_carrier' = carrier
  /\ masker_payload' = payload
  /\ masker_output' = GenerateWithCarrier(carrier, payload, masker_snr_db)
  /\ masker_pc' = "embedded"
  /\ masker_mode' = "carrier"
  /\ UNCHANGED << masker_snr_db, masker_request, masker_bits, masker_extracted, rng_state >>

\* output = masker.generate_masked_audio(payload); a draw of one or more
\* samples moves the global random state on
MaskerGenerate(payload) ==
  /\ masker_pc = "idle"
  /\ masker_carrier' = << >>
  /\ masker_payload' = payload
  /\ masker_output' = GenerateMaskedAudio(payload, masker_snr_db, rng_state)
  /\ rng_state' = IF Len(payload) = 0 THEN rng_state ELSE rng_state + 1
  /\ masker_pc' = "embedded"
  /\ masker_mode' = "noise"
  /\ UNCHANGED << masker_snr_db, masker_request, masker_bits, masker_extracted >>

\* masker.extract_from_audio(output)
MaskerExtract ==
  /\ masker_pc = "embedded"
  /\ masker_output.status = "ok"
  /\ masker_bits' = MaskerDemodulateBits(masker_output.samples, MaskerMaxBits)
  /\ masker_extracted' = BitsToBytes(masker_bits')
  /\ masker_pc' = "extracted"
  /\ UNCHANGED << masker_snr_db, masker_request, masker_carrier, masker_payload,
                  masker_output, masker_mode, rng_state >>

\* stego = engine.embed_in_audio(carrier, message, rate)
Embed(carrier, message, rate) ==
  /\ codec_pc = "idle"
  /\ carrier_audio' = carrier
  /\ embed_message' = message
  /\ embed_rate' = rate
  /\ embed_bits' = FrameBits(message)
  /\ stego_audio' = EmbedInAudio(carrier, message, rate, engine_snr_db)
  /\ codec_pc' = "embedded"
  /\ UNCHANGED << engine_snr_db, snr_request, decode_rate, extracted_bits, extracted_bytes >>

\* engine.extract_from_audio(stego, rate)
Extract(rate) ==
  /\ codec_pc = "embedded"
  /\ stego_audio.status = "ok"
  /\ decode_rate' = rate
  /\ extracted_bits' = DemodulateBits(stego_audio.samples, rate, MaxBits)
  /\ extracted_bytes' = ExtractMessage(BitsToBytes(extracted_bits'))
  /\ codec_pc' = "extracted"
  /\ UNCHANGED << engine_snr_db, snr_request, carrier_audio, embed_message, embed_rate,
                  embed_bits, stego_audio >>

(***************************************************************************)
(* Callers sharing the Studio's engine (do_encode: set_snr, then           *)
(* embed_in_audio), a masker (generate_masked_audio) and np.random.  Each  *)
(* caller makes one call; the steps of different callers interleave.       *)
(***************************************************************************)
Callers == {1, 2}

\* what every "studio" caller embeds, and what every "noise" caller encodes
SessionPayload == << 65 >>
SessionRate == 1000
SessionCarrier ==
  [n \in 1..(SPREADING_FACTOR * (HeaderBits + 8) * SamplesPerChip(SessionRate) + 3) |->
     IF n % 2 = 1 THEN UNIT \div 2 ELSE -(UNIT \div 2)]

\* mutant: output = carrier_audio, without the copy: the += writes into
\* the caller's array
CarrierAfterEmbedInPlace(carrier, result) == result.samples

\* output = carrier_audio.copy(): the caller's array after the call
CarrierAfterEmbed(carrier, result) == carrier

\* no caller has started
SessionIdle ==
  /\ call_pc = [t \in Callers |-> "start"]
  /\ call_kind = [t \in Callers |-> "studio"]
  /\ call_snr = [t \in Callers |-> DEFAULT_SNR]
  /\ call_request = [t \in Callers |-> DEFAULT_SNR]
  /\ call_carrier = [t \in Callers |-> << >>]
  /\ call_result = [t \in Callers |-> NoAudio]
  /\ rng_start = 0

\* the callers and what each will ask for
SessionInit ==
  /\ call_pc = [t \in Callers |-> "start"]
  /\ call_kind \in [Callers -> {"studio", "noise"}]
  /\ call_snr \in [Callers -> {SNR_MIN, DEFAULT_SNR, SNR_MAX}]
  /\ \A t \in Callers : call_kind[t] = "noise" <=> call_snr[t] = DEFAULT_SNR
  /\ call_request = [t \in Callers |-> DEFAULT_SNR]
  /\ call_carrier = [t \in Callers |-> SessionCarrier]
  /\ call_result = [t \in Callers |-> NoAudio]
  /\ rng_start = rng_state

\* do_encode: self.engine.set_snr(self.snr_spin.value())
CallSetSnr(t) ==
  /\ call_kind[t] = "studio" /\ call_pc[t] = "start"
  /\ SetSnr(call_snr[t])
  /\ call_pc' = [call_pc EXCEPT ![t] = "snr_set"]
  /\ UNCHANGED << call_kind, call_snr, call_request, call_carrier, call_result, rng_start >>

\* do_encode: stego = self.engine.embed_in_audio(self.carrier_audio, encrypted, rate)
CallEmbed(t) ==
  /\ call_kind[t] = "studio" /\ call_pc[t] = "snr_set"
  /\ LET result == EmbedInAudio(call_carrier[t], SessionPayload, SessionRate, engine_snr_db)
     IN  /\ call_result' = [call_result EXCEPT ![t] = result]
         /\ call_carrier' = [call_carrier EXCEPT ![t] = CarrierAfterEmbed(call_carrier[t], result)]
  /\ call_request' = [call_request EXCEPT ![t] = snr_request]
  /\ call_pc' = [call_pc EXCEPT ![t] = "done"]
  /\ UNCHANGED << call_kind, call_snr, rng_start >>

\* masker.generate_masked_audio(payload): the noise is the next draw of np.random
CallGenerate(t) ==
  /\ call_kind[t] = "noise" /\ call_pc[t] = "start"
  /\ call_result' = [call_result EXCEPT ![t] =
                       GenerateMaskedAudio(SessionPayload, masker_snr_db, rng_state)]
  /\ rng_state' = rng_state + 1
  /\ call_request' = [call_request EXCEPT ![t] = masker_request]
  /\ call_pc' = [call_pc EXCEPT ![t] = "done"]
  /\ UNCHANGED << call_kind, call_snr, call_carrier, rng_start >>
  /\ UNCHANGED << masker_snr_db, masker_request, masker_carrier, masker_payload,
                  masker_output, masker_pc, masker_mode, masker_bits, masker_extracted >>

(***************************************************************************)
(* Inputs.                                                                 *)
(***************************************************************************)
PayloadBytes == {65, 255}

RECURSIVE SeqsUpTo(_, _)
SeqsUpTo(S, n) ==
  IF n = 0 THEN {<< >>}
  ELSE LET shorter == SeqsUpTo(S, n - 1)
       IN  shorter \cup {Append(q, x) : q \in {r \in shorter : Len(r) = n - 1}, x \in S}

ShortPayloads == SeqsUpTo(PayloadBytes, MaxLen)
LongPayload == [i \in 1..MaxMessageBytes |-> 65]

SampleRates == {1000, 2000}

\* samples embed_in_audio modulates for a message of n bytes
ModulatedLen(n, rate) == SPREADING_FACTOR * (HeaderBits + 8 * n) * SamplesPerChip(rate)

\* a carrier of L samples alternating +level, -level
Tone(L, level) == [n \in 1..L |-> IF n % 2 = 1 THEN level ELSE -level]

CarriersFor(message, rate) ==
  LET Lm == ModulatedLen(Len(message), rate)
  IN  {Tone(Lm + d, 0) : d \in {-1, 0, 3}}
        \cup {Tone(0, 0), Tone(5, 0)}
        \cup {Tone(Lm + 3, level) : level \in {50000, 99000}}
        \cup {Tone(Lm - 1, 99000)}

\* the masker's inputs: payloads, and carriers around the modulated length
MaskerPayloads == {<< >>, << 65 >>}

MaskerModulatedLen(n) == SPREADING_FACTOR * 8 * n * SamplesPerChip(SAMPLE_RATE)

MaskerCarriersFor(payload) ==
  LET Lm == MaskerModulatedLen(Len(payload))
  IN  {Tone(Lm + 3, level) : level \in {0, 50000, 99000}}
        \cup {Tone(Max(0, Lm - 1), 99000)}

SnrRequests == (SNR_MIN - SnrMargin)..(SNR_MAX + SnrMargin)

(***************************************************************************)
(* CryptoHelper.  A str is the sequence of its code points, bytes are a    *)
(* sequence of 0..255.                                                     *)
(***************************************************************************)
\* b"MILCODEC_V2"
MAGIC_HEADER == << 77, 73, 76, 67, 79, 68, 69, 67, 95, 86, 50 >>

SALT_LEN == 16
NONCE_LEN == 12
KEY_LEN == 32
\* the nonce cryptography's ChaCha20 takes: 4 bytes of counter and 12 of nonce
CHACHA_NONCE_LEN == 16

StartsWith(data, prefix) ==
  Len(data) >= Len(prefix) /\ SubSeq(data, 1, Len(prefix)) = prefix

\* the slice data[from:to], from and to counted from 0 as in Python
Slice(data, from, to) == SubSeq(data, from + 1, Min(to, Len(data)))

\* a ^ b on bytes
Xor(a, b) ==
  LET bit(x, k) == (x \div (2 ^ k)) % 2
      d(k) == (2 ^ k) * ((bit(a, k) + bit(b, k)) % 2)
  IN  d(0) + d(1) + d(2) + d(3) + d(4) + d(5) + d(6) + d(7)

\* one code point in UTF-8
EncodeCodePoint(cp) ==
  IF cp < 128 THEN << cp >>
  ELSE IF cp < 2048 THEN << 192 + (cp \div 64), 128 + (cp % 64) >>
  ELSE IF cp < 65536
       THEN << 224 + (cp \div 4096), 128 + ((cp \div 64) % 64), 128 + (cp % 64) >>
  ELSE << 240 + (cp \div 262144), 128 + ((cp \div 4096) % 64), 128 + ((cp \div 64) % 64),
          128 + (cp % 64) >>

\* str.encode('utf-8')
RECURSIVE Utf8Encode(_)
Utf8Encode(text) ==
  IF text = << >> THEN << >>
  ELSE IF Len(text) = 1 THEN EncodeCodePoint(text[1])
  ELSE LET half == Len(text) \div 2
       IN  Utf8Encode(SubSeq(text, 1, half)) \o Utf8Encode(SubSeq(text, half + 1, Len(text)))

IsContinuation(data, i) == i <= Len(data) /\ data[i] >= 128 /\ data[i] <= 191

\* bytes.decode('utf-8') from byte i on: the code points, or << -1 >> where
\* Python raises UnicodeDecodeError
RECURSIVE Utf8DecodeFrom(_, _)
Utf8DecodeFrom(data, i) ==
  IF i > Len(data) THEN << >>
  ELSE LET b0 == data[i]
           size == IF b0 < 128 THEN 1
                   ELSE IF b0 >= 194 /\ b0 <= 223 THEN 2
                   ELSE IF b0 >= 224 /\ b0 <= 239 THEN 3
                   ELSE IF b0 >= 240 /\ b0 <= 244 THEN 4
                   ELSE 0
           wellFormed ==
             /\ size > 0
             /\ \A j \in 1..(size - 1) : IsContinuation(data, i + j)
             /\ b0 = 224 => data[i + 1] >= 160
             /\ b0 = 237 => data[i + 1] <= 159
             /\ b0 = 240 => data[i + 1] >= 144
             /\ b0 = 244 => data[i + 1] <= 143
           cp == IF size = 1 THEN b0
                 ELSE IF size = 2 THEN (b0 - 192) * 64 + (data[i + 1] - 128)
                 ELSE IF size = 3
                      THEN (b0 - 224) * 4096 + (data[i + 1] - 128) * 64 + (data[i + 2] - 128)
                 ELSE (b0 - 240) * 262144 + (data[i + 1] - 128) * 4096
                        + (data[i + 2] - 128) * 64 + (data[i + 3] - 128)
       IN  IF ~wellFormed THEN << -1 >>
           ELSE LET rest == Utf8DecodeFrom(data, i + size)
                IN  IF rest = << -1 >> THEN rest ELSE << cp >> \o rest

Utf8Valid(data) == Utf8DecodeFrom(data, 1) # << -1 >>

\* the fallback key (password * 32)[:32].encode('utf-8')
FallbackKey(password) ==
  Utf8Encode([i \in 1..(IF Len(password) = 0 THEN 0 ELSE KEY_LEN) |->
                password[((i - 1) % Len(password)) + 1]])

RECURSIVE SumOf(_)
SumOf(data) == IF data = << >> THEN 0 ELSE Head(data) + SumOf(Tail(data))

\* PBKDF2HMAC(SHA256, length=32, salt, iterations=100000).derive(password): a
\* 32-byte key that depends on the password and the salt (a stand-in for the
\* library's hash; no result below rests on its values)
Pbkdf2(password_bytes, salt) ==
  [i \in 1..KEY_LEN |-> (7 * SumOf(password_bytes) + 3 * SumOf(salt) + 17 * i) % 256]

\* CryptoHelper.derive_key, the key it returns
DeriveKey(password, salt, available) ==
  IF ~available THEN FallbackKey(password)
  ELSE Pbkdf2(Utf8Encode(password), salt)

\* bytes([b ^ key[i % len(key)] for i, b in enumerate(data)])
XorWithKey(data, key) == [i \in 1..Len(data) |-> Xor(data[i], key[((i - 1) % Len(key)) + 1])]

\* algorithms.ChaCha20(key, nonce): the library raises ValueError("nonce must
\* be 128-bits (16 bytes)") unless len(nonce) == 16
ChaCha20Accepts(key, nonce) == Len(nonce) = CHACHA_NONCE_LEN

\* encryptor.update / decryptor.update: the data xor-ed with a key stream set
\* by key and nonce (a stand-in for the library's cipher)
ChaCha20Update(key, nonce, data) ==
  [i \in 1..Len(data) |->
     Xor(data[i], (key[((i - 1) % Len(key)) + 1] + nonce[((i - 1) % Len(nonce)) + 1] + i) % 256)]

NoBlob == << >>

\* mutant: the nonce left out of the blob
EncryptWithoutNonce(plaintext, password, salt, nonce, available) ==
  LET key == DeriveKey(password, salt, available)
      data == Utf8Encode(plaintext)
  IN  IF ~available
      THEN IF Len(data) > 0 /\ Len(key) = 0
           THEN [status |-> "ZeroDivisionError", blob |-> NoBlob]
           ELSE [status |-> "ok", blob |-> MAGIC_HEADER \o salt \o XorWithKey(data, key)]
      ELSE IF ~ChaCha20Accepts(key, nonce)
           THEN [status |-> "NonceError", blob |-> NoBlob]
           ELSE [status |-> "ok",
                 blob |-> MAGIC_HEADER \o salt \o ChaCha20Update(key, nonce, data)]

\* CryptoHelper.encrypt with the salt and nonce os.urandom returned
Encrypt(plaintext, password, salt, nonce, available) ==
  LET key == DeriveKey(password, salt, available)
      data == Utf8Encode(plaintext)
  IN  IF ~available
      THEN IF Len(data) > 0 /\ Len(key) = 0
           THEN [status |-> "ZeroDivisionError", blob |-> NoBlob]
           ELSE [status |-> "ok",
                 blob |-> MAGIC_HEADER \o salt \o nonce \o XorWithKey(data, key)]
      ELSE IF ~ChaCha20Accepts(key, nonce)
           THEN [status |-> "NonceError", blob |-> NoBlob]
           ELSE [status |-> "ok",
                 blob |-> MAGIC_HEADER \o salt \o nonce \o ChaCha20Update(key, nonce, data)]

\* the outcome of a decrypt call: what it parsed, the decrypted bytes, and
\* the text it returned or the error it raised
Outcome(st, parsed, raw, text) ==
  [status |-> st, salt |-> parsed[1], nonce |-> parsed[2], ciphertext |-> parsed[3],
   decrypted |-> raw, text |-> text]

\* mutant: the decrypted bytes returned undecoded, whatever they are
DecodedUnchecked(parsed, raw) == Outcome("ok", parsed, raw, raw)

\* str(bytes, 'utf-8'), or the error
Decoded(parsed, raw) ==
  IF Utf8Valid(raw) THEN Outcome("ok", parsed, raw, Utf8DecodeFrom(raw, 1))
  ELSE Outcome("UnicodeDecodeError", parsed, raw, << >>)

\* CryptoHelper.decrypt
Decrypt(encrypted, password, available) ==
  IF ~StartsWith(encrypted, MAGIC_HEADER)
  THEN Outcome("InvalidData", << << >>, << >>, << >> >>, << >>, << >>)
  ELSE LET data == Slice(encrypted, Len(MAGIC_HEADER), Len(encrypted))
           salt == Slice(data, 0, SALT_LEN)
           nonce == Slice(data, SALT_LEN, SALT_LEN + NONCE_LEN)
           ciphertext == Slice(data, SALT_LEN + NONCE_LEN, Len(data))
           parsed == << salt, nonce, ciphertext >>
           key == DeriveKey(password, salt, available)
       IN  IF ~available
           THEN IF Len(ciphertext) > 0 /\ Len(key) = 0
                THEN Outcome("ZeroDivisionError", parsed, << >>, << >>)
                ELSE Decoded(parsed, XorWithKey(ciphertext, key))
           ELSE IF ~ChaCha20Accepts(key, nonce)
                THEN Outcome("NonceError", parsed, << >>, << >>)
                ELSE Decoded(parsed, ChaCha20Update(key, nonce, ciphertext))

\* what do_decode shows for the extracted bytes: it asks for a password when
\* none is given, its except ValueError branch catches the three ValueErrors,
\* its except Exception branch the rest
DoDecodeStatus(extracted, password, available) ==
  IF Len(password) = 0 THEN "Please enter the decryption password."
  ELSE IF Len(extracted) = 0 THEN "No message found or extraction failed"
  ELSE LET st == Decrypt(extracted, password, available).status
       IN  IF st = "ok" THEN "SUCCESS"
           ELSE IF st \in {"InvalidData", "NonceError", "UnicodeDecodeError"}
                THEN "Decryption failed - wrong password?"
           ELSE "ERROR"

NotCalled == Outcome("none", << << >>, << >>, << >> >>, << >>, << >>)

\* the module is imported: CRYPTO_AVAILABLE is set by the try/except import
CryptoInit ==
  /\ crypto_available \in BOOLEAN
  /\ seal_plaintext = << >>
  /\ seal_password = << >>
  /\ seal_salt = << >>
  /\ seal_nonce = << >>
  /\ seal_result = [status |-> "none", blob |-> NoBlob]
  /\ open_blob = << >>
  /\ open_password = << >>
  /\ open_result = NotCalled
  /\ decode_status = ""
  /\ crypto_pc = "start"

\* blob = CryptoHelper.encrypt(plaintext, password); os.urandom draws salt, nonce
Seal(plaintext, password, salt, nonce) ==
  /\ crypto_pc = "start"
  /\ seal_plaintext' = plaintext
  /\ seal_password' = password
  /\ seal_salt' = salt
  /\ seal_nonce' = nonce
  /\ seal_result' = Encrypt(plaintext, password, salt, nonce, crypto_available)
  /\ crypto_pc' = "sealed"
  /\ UNCHANGED << crypto_available, open_blob, open_password, open_result, decode_status >>

\* CryptoHelper.decrypt(blob, password), and what do_decode reports for it
Open(blob, password) ==
  /\ crypto_pc = "sealed"
  /\ open_blob' = blob
  /\ open_password' = password
  /\ open_result' = Decrypt(blob, password, crypto_available)
  /\ decode_status' = DoDecodeStatus(blob, password, crypto_available)
  /\ crypto_pc' = "opened"
  /\ UNCHANGED << crypto_available, seal_plaintext, seal_password, seal_salt, seal_nonce,
                  seal_result >>

(***************************************************************************)
(* Inputs of the crypto envelope.                                          *)
(***************************************************************************)
\* 'A', e-acute (2 bytes in UTF-8)
TextChars == {65, 233}
\* the euro sign (3 bytes in UTF-8)
Plaintexts == SeqsUpTo(TextChars, MaxLen) \cup {<< 8364 >>}
\* "", "a", "aa", "b"
Passwords == {<< >>, << 97 >>, << 97, 97 >>, << 98 >>}
Salts == {[i \in 1..SALT_LEN |-> s] : s \in {0, 200}}
Nonces == {[i \in 1..NONCE_LEN |-> 9]}
Zeros(n) == [i \in 1..n |-> 0]

\* blobs that no encrypt call made
ForeignBlobs ==
  { << >>,
    SubSeq(MAGIC_HEADER, 1, 10),
    MAGIC_HEADER,
    MAGIC_HEADER \o Zeros(5),
    MAGIC_HEADER \o Zeros(SALT_LEN + NONCE_LEN) \o << 255 >>,
    MAGIC_HEADER \o Zeros(SALT_LEN + NONCE_LEN) \o << 32 >>,
    << 88 >> \o Tail(MAGIC_HEADER) \o Zeros(SALT_LEN + NONCE_LEN) \o << 32 >> }

\* the sealed blob, if there is one, whole and cut short
SealedBlobs ==
  IF seal_result.status # "ok" THEN {}
  ELSE {seal_result.blob} \cup {SubSeq(seal_result.blob, 1, k) : k \in {10, 20, 38}}

(***************************************************************************)
(* The Studio window: a carrier WAV is loaded, do_encode embeds and saves, *)
(* the saved WAV is loaded on the decode tab, do_decode extracts.          *)
(***************************************************************************)
NoWav == [status |-> "none", audio |-> NoAudio, framerate |-> 0]

\* AudioHandler.save_wav: the samples rescaled to a peak of 0.99 and written
\* with the given frame rate (the rounding to 16 bits is left out: it keeps
\* every sample's sign)
SaveWav(audio, sample_rate) ==
  LET max_val == Peak(audio.samples)
  IN  [status |-> "ok",
       audio |-> IF max_val > 0 THEN [audio EXCEPT !.gain = <<99, 100 * max_val>>] ELSE audio,
       framerate |-> sample_rate]

\* StudioWindow.__init__
StudioIdle ==
  /\ carrier_sample_rate = SAMPLE_RATE
  /\ wav_file = NoWav
  /\ loaded_stego = NoAudio
  /\ decode_result = ""
  /\ studio_pc = "start"

\* on_carrier_loaded: self.carrier_audio, self.carrier_sample_rate, _ = load_wav(...)
OnCarrierLoaded(audio, framerate) ==
  /\ studio_pc = "start"
  /\ carrier_audio' = audio
  /\ carrier_sample_rate' = framerate
  /\ studio_pc' = "carrier"
  /\ UNCHANGED << engine_snr_db, snr_request, embed_message, embed_rate, embed_bits,
                  stego_audio, decode_rate, extracted_bits, extracted_bytes, codec_pc >>
  /\ UNCHANGED << wav_file, loaded_stego, decode_result >>

\* do_encode with a message and a password entered: `encrypted` is what
\* CryptoHelper.encrypt returned, v the value of the SNR spin box; the
\* ValueError of an empty carrier is caught and nothing is saved
DoEncode(encrypted, v) ==
  /\ studio_pc = "carrier"
  /\ engine_snr_db' = ClampSnr(v)
  /\ snr_request' = v
  /\ embed_message' = encrypted
  /\ embed_rate' = carrier_sample_rate
  /\ embed_bits' = FrameBits(encrypted)
  /\ stego_audio' = EmbedInAudio(carrier_audio, encrypted, carrier_sample_rate, engine_snr_db')
  /\ codec_pc' = "embedded"
  /\ wav_file' = IF stego_audio'.status = "ok"
                 THEN SaveWav(stego_audio', carrier_sample_rate) ELSE wav_file
  /\ studio_pc' = "encoded"
  /\ UNCHANGED << carrier_audio, decode_rate, extracted_bits, extracted_bytes >>
  /\ UNCHANGED << carrier_sample_rate, loaded_stego, decode_result >>

\* on_stego_loaded: self.stego_audio, _, _ = load_wav(...): the file's frame
\* rate is dropped
OnStegoLoaded ==
  /\ studio_pc = "encoded"
  /\ wav_file.status = "ok"
  /\ loaded_stego' = wav_file.audio
  /\ studio_pc' = "loaded"
  /\ UNCHANGED << codecVars, carrier_sample_rate, wav_file, decode_result >>

\* do_decode: self.engine.extract_from_audio(self.stego_audio), the sample
\* rate left at its default
DoDecode(password) ==
  /\ studio_pc = "loaded"
  /\ IF Len(password) = 0
     THEN UNCHANGED << decode_rate, extracted_bits, extracted_bytes, codec_pc >>
     ELSE /\ decode_rate' = SAMPLE_RATE
          /\ extracted_bits' = DemodulateBits(loaded_stego.samples, SAMPLE_RATE, MaxBits)
          /\ extracted_bytes' = ExtractMessage(BitsToBytes(extracted_bits'))
          /\ codec_pc' = "extracted"
  /\ decode_result' = DoDecodeStatus(IF Len(password) = 0 THEN << >> ELSE extracted_bytes',
                                     password, crypto_available)
  /\ studio_pc' = "decoded"
  /\ UNCHANGED << engine_snr_db, snr_request, carrier_audio, embed_message, embed_rate,
                  embed_bits, stego_audio >>
  /\ UNCHANGED << carrier_sample_rate, wav_file, loaded_stego >>

(***************************************************************************)
(* The Commander's EncryptionCore and the Receiver's CryptoEngine.  A str  *)
(* is the sequence of its code points.                                     *)
(***************************************************************************)
Colon == 58
\* "CMD:"
CmdPrefix == << 67, 77, 68, Colon >>
PRIORITY_ROUTINE == << 82, 79, 85, 84, 73, 78, 69 >>
PRIORITY_PRIORITY == << 80, 82, 73, 79, 82, 73, 84, 89 >>
PRIORITY_IMMEDIATE == << 73, 77, 77, 69, 68, 73, 65, 84, 69 >>
PRIORITY_FLASH == << 70, 76, 65, 83, 72 >>
PRIORITIES == << PRIORITY_ROUTINE, PRIORITY_PRIORITY, PRIORITY_IMMEDIATE, PRIORITY_FLASH >>
\* the keys of PRIORITY_COLORS
PRIORITY_COLORS == {PRIORITY_FLASH, PRIORITY_IMMEDIATE, PRIORITY_PRIORITY, PRIORITY_ROUTINE}

\* None
None == << -1 >>

\* EncryptionCore.encrypt_packet: each of its three return statements
\* returns header + payload
EncryptPacket(plaintext, target_unit, priority) ==
  LET header == Utf8Encode(CmdPrefix \o target_unit \o << Colon >> \o priority \o << Colon >>)
      payload == Utf8Encode(plaintext)
  IN  header \o payload

\* the number of bytes a UTF-8 lead byte announces, 0 for other bytes
LeadSize(b0) ==
  IF b0 < 128 THEN 1
  ELSE IF b0 >= 194 /\ b0 <= 223 THEN 2
  ELSE IF b0 >= 224 /\ b0 <= 239 THEN 3
  ELSE IF b0 >= 240 /\ b0 <= 244 THEN 4
  ELSE 0

\* bytes.decode('utf-8', errors='ignore') from byte i on
RECURSIVE Utf8DecodeIgnore(_, _)
Utf8DecodeIgnore(data, i) ==
  IF i > Len(data) THEN << >>
  ELSE LET size == LeadSize(data[i])
           piece == SubSeq(data, i, Min(Len(data), i + size - 1))
       IN  IF size > 0 /\ Len(piece) = size /\ Utf8Valid(piece)
           THEN Utf8DecodeFrom(piece, 1) \o Utf8DecodeIgnore(data, i + size)
           ELSE Utf8DecodeIgnore(data, i + 1)

\* index of the first sep in text, 0 when there is none
FirstIndex(text, sep) ==
  IF \E i \in 1..Len(text) : text[i] = sep
  THEN CHOOSE i \in 1..Len(text) : text[i] = sep /\ \A j \in 1..(i - 1) : text[j] # sep
  ELSE 0

\* mutant: text.split(sep), every separator splits
RECURSIVE SplitEvery(_, _, _)
SplitEvery(text, sep, maxsplit) ==
  LET i == FirstIndex(text, sep)
  IN  IF i = 0 THEN << text >>
      ELSE << SubSeq(text, 1, i - 1) >> \o SplitEvery(SubSeq(text, i + 1, Len(text)), sep, maxsplit)

\* text.split(sep, maxsplit)
RECURSIVE Split(_, _, _)
Split(text, sep, maxsplit) ==
  LET i == FirstIndex(text, sep)
  IN  IF maxsplit = 0 \/ i = 0 THEN << text >>
      ELSE << SubSeq(text, 1, i - 1) >>
             \o Split(SubSeq(text, i + 1, Len(text)), sep, maxsplit - 1)

\* what decrypt_payload returns, and by how much it raises messages_decrypted
Returned(plaintext, status, priority, counted) ==
  [plaintext |-> plaintext, status |-> status, priority |-> priority, counted |-> counted]

\* CryptoEngine.decrypt_payload
DecryptPayload(encrypted_blob, burned, available) ==
  IF burned THEN Returned(None, "KEYS BURNED - CANNOT DECRYPT", PRIORITY_ROUTINE, 0)
  ELSE IF ~available
  THEN Returned(Utf8DecodeIgnore(encrypted_blob, 1), "CRYPTO UNAVAILABLE", PRIORITY_ROUTINE, 0)
  ELSE IF ~Utf8Valid(encrypted_blob)
  THEN Returned(None, "DECRYPT ERROR", PRIORITY_ROUTINE, 0)
  ELSE LET text == Utf8DecodeFrom(encrypted_blob, 1)
           parts == Split(text, Colon, 3)
       IN  IF ~StartsWith(text, CmdPrefix)
           THEN Returned(None, "INVALID FORMAT", PRIORITY_ROUTINE, 0)
           ELSE IF Len(parts) >= 4
           THEN Returned(parts[4], "VERIFIED",
                         IF parts[3] \in PRIORITY_COLORS THEN parts[3] ELSE PRIORITY_ROUTINE, 1)
           ELSE Returned(SubSeq(text, 5, Len(text)), "VERIFIED", PRIORITY_ROUTINE, 1)

NotReturned == Returned(None, "", << >>, 0)

\* the packets a run decrypts
MaxPackets == 2

\* CryptoEngine.__init__ and EncryptionCore.__init__; the module's import
\* has set CRYPTO_AVAILABLE
CryptoEngineInit ==
  /\ is_burned = FALSE
  /\ private_key = "TOP_SECRET_BURN_ON_CAPTURE_KEY32"
  /\ messages_decrypted = 0

PacketIdle ==
  /\ session_count = 0
  /\ packet_plaintext = << >>
  /\ packet_target = << >>
  /\ packet_priority = << >>
  /\ packet_blob = << >>
  /\ packet_result = NotReturned
  /\ packet_pc = "idle"


\* blob = core.encrypt_packet(plaintext, target_unit, priority)
EncryptPacketCall(plaintext, target_unit, priority) ==
  /\ packet_pc = "idle"
  /\ session_count' = session_count + 1
  /\ packet_plaintext' = plaintext
  /\ packet_target' = target_unit
  /\ packet_priority' = priority
  /\ packet_blob' = EncryptPacket(plaintext, target_unit, priority)
  /\ packet_pc' = "built"
  /\ UNCHANGED << packet_result, rxCryptoVars >>

\* engine.decrypt_payload(blob)
DecryptPayloadCall ==
  /\ packet_pc = "built"
  /\ packet_result' = DecryptPayload(packet_blob, is_burned, rx_crypto_available)
  /\ messages_decrypted' = messages_decrypted + packet_result'.counted
  /\ packet_pc' = "returned"
  /\ UNCHANGED << rx_crypto_available, is_burned, private_key >>
  /\ UNCHANGED << session_count, packet_plaintext, packet_target, packet_priority, packet_blob >>

\* engine.burn_keys(), before the packet is decrypted
BurnKeys ==
  /\ packet_pc # "returned"
  /\ ~is_burned
  /\ private_key' = "zeros"
  /\ is_burned' = TRUE
  /\ UNCHANGED << rx_crypto_available, messages_decrypted, packetVars >>

(***************************************************************************)
(* The Receiver's threads: the audio thread puts message triggers on the   *)
(* queue, the processor thread takes them through decrypt_payload, the GUI *)
(* thread runs panic_wipe.  A thread switch can fall between any two       *)
(* statements.                                                             *)
(***************************************************************************)
NoStats == [packets_received |-> 0, packets_decoded |-> 0, crypto_status |-> "",
            messages_decrypted |-> 0]

\* SignalProcessor.__init__ and MainWindow.__init__
ProcessorInit ==
  /\ is_running = TRUE
  /\ data_queue = << >>
  /\ injected = 0
  /\ packets_received = 0
  /\ packets_decoded = 0
  /\ feed = << >>
  /\ stats = NoStats
  /\ proc_pc = "get"
  /\ proc_chunk = << >>
  /\ proc_result = NotReturned
  /\ gui_pc = "running"
  /\ burn_snapshot = NoStats

ReceiverIdle == rx_crypto_available = TRUE /\ CryptoEngineInit /\ PacketIdle /\ ProcessorInit

\* CryptoEngine.get_status
GetStatus(burned) == IF burned THEN "BURNED" ELSE "OPERATIONAL"

\* the dict _emit_stats sends (uptime left out)
Stats(received, decoded, burned, decrypted) ==
  [packets_received |-> received, packets_decoded |-> decoded,
   crypto_status |-> GetStatus(burned), messages_decrypted |-> decrypted]

\* mutant: every returned value counts as decoded
TruthyAlways(decrypted) == TRUE

\* `if decrypted:`
Truthy(decrypted) == decrypted # None /\ decrypted # << >>

\* _run_simulation: self.data_queue.put(("MSG_TRIGGER", msg))
SimInject(msg) ==
  /\ is_running
  /\ injected < MaxPackets
  /\ data_queue' = Append(data_queue, msg)
  /\ injected' = injected + 1
  /\ UNCHANGED << rxCryptoVars, is_running, packets_received, packets_decoded, feed, stats,
                  proc_pc, proc_chunk, proc_result, gui_pc, burn_snapshot >>

\* _processor_loop: chunk = self.data_queue.get(...); a MSG_TRIGGER is counted
ProcGet ==
  /\ proc_pc = "get" /\ is_running
  /\ data_queue # << >>
  /\ proc_chunk' = Head(data_queue)
  /\ data_queue' = Tail(data_queue)
  /\ packets_received' = packets_received + 1
  /\ proc_pc' = "check"
  /\ UNCHANGED << rxCryptoVars, is_running, injected, packets_decoded, feed, stats,
                  proc_result, gui_pc, burn_snapshot >>

\* _processor_loop: the loop ends, self._emit_stats()
ProcExit ==
  /\ proc_pc = "get" /\ ~is_running
  /\ stats' = Stats(packets_received, packets_decoded, is_burned, messages_decrypted)
  /\ proc_pc' = "stopped"
  /\ UNCHANGED << rxCryptoVars, is_running, data_queue, injected, packets_received,
                  packets_decoded, feed, proc_chunk, proc_result, gui_pc, burn_snapshot >>

\* decrypt_payload: `if self.is_burned: return None, ...`
ProcCheckBurned ==
  /\ proc_pc = "check"
  /\ IF is_burned
     THEN /\ proc_result' = DecryptPayload(Utf8Encode(proc_chunk), TRUE, rx_crypto_available)
          /\ proc_pc' = "handle"
     ELSE /\ proc_pc' = "parse"
          /\ UNCHANGED proc_result
  /\ UNCHANGED << rxCryptoVars, is_running, data_queue, injected, packets_received,
                  packets_decoded, feed, stats, proc_chunk, gui_pc, burn_snapshot >>

\* decrypt_payload past the is_burned test: decode, parse, count, return
ProcParse ==
  /\ proc_pc = "parse"
  /\ proc_result' = DecryptPayload(Utf8Encode(proc_chunk), FALSE, rx_crypto_available)
  /\ messages_decrypted' = messages_decrypted + proc_result'.counted
  /\ proc_pc' = "handle"
  /\ UNCHANGED << rx_crypto_available, is_burned, private_key >>
  /\ UNCHANGED << is_running, data_queue, injected, packets_received, packets_decoded, feed,
                  stats, proc_chunk, gui_pc, burn_snapshot >>

\* _handle_decoded_message after decrypt_payload returned: count, emit to
\* the feed, emit the statistics
ProcHandle ==
  /\ proc_pc = "handle"
  /\ IF Truthy(proc_result.plaintext)
     THEN /\ packets_decoded' = packets_decoded + 1
          /\ feed' = Append(feed, [kind |-> "decoded", text |-> proc_result.plaintext,
                                   priority |-> proc_result.priority])
     ELSE /\ UNCHANGED packets_decoded
          /\ feed' = Append(feed, [kind |-> "failed", text |-> << >>,
                                   priority |-> << >>])
  /\ stats' = Stats(packets_received, packets_decoded', is_burned, messages_decrypted)
  /\ proc_pc' = "get"
  /\ UNCHANGED << rxCryptoVars, is_running, data_queue, injected, packets_received,
                  proc_chunk, proc_result, gui_pc, burn_snapshot >>

\* panic_wipe -> burn -> burn_keys: self.private_key = b"\x00" * 32
BurnWipeKey ==
  /\ gui_pc = "running"
  /\ private_key' = "zeros"
  /\ gui_pc' = "wiping"
  /\ UNCHANGED << rx_crypto_available, is_burned, messages_decrypted >>
  /\ UNCHANGED << is_running, data_queue, injected, packets_received, packets_decoded, feed,
                  stats, proc_pc, proc_chunk, proc_result, burn_snapshot >>

\* burn_keys: self.is_burned = True, and burn() returns; the counters as
\* they stand are noted
BurnSetFlag ==
  /\ gui_pc = "wiping"
  /\ is_burned' = TRUE
  /\ gui_pc' = "burned"
  /\ burn_snapshot' = Stats(packets_received, packets_decoded, TRUE, messages_decrypted)
  /\ UNCHANGED << rx_crypto_available, private_key, messages_decrypted >>
  /\ UNCHANGED << is_running, data_queue, injected, packets_received, packets_decoded, feed,
                  stats, proc_pc, proc_chunk, proc_result >>

\* the rest of panic_wipe: three lines added to the feed, the close timer set
PanicWipeRest ==
  /\ gui_pc = "burned"
  /\ feed' = feed \o [k \in 1..3 |-> [kind |-> "panic", text |-> << >>,
                                      priority |-> PRIORITY_FLASH]]
  /\ gui_pc' = "closing"
  /\ UNCHANGED << rxCryptoVars, is_running, data_queue, injected, packets_received,
                  packets_decoded, stats, proc_pc, proc_chunk, proc_result, burn_snapshot >>

\* closeEvent, three seconds later: self.processor.stop()
CloseEvent ==
  /\ gui_pc = "closing"
  /\ is_running' = FALSE
  /\ gui_pc' = "closed"
  /\ UNCHANGED << rxCryptoVars, data_queue, injected, packets_received, packets_decoded,
                  feed, stats, proc_pc, proc_chunk, proc_result, burn_snapshot >>

(***************************************************************************)
(* AI_COMMAND/scheduler.py.  Time is the local clock in whole hours since  *)
(* a midnight; a task that never ran has last run Never.                   *)
(***************************************************************************)
SCHEDULES ==
  [inflation |-> [type |-> "interval", interval_hours |-> 6],
   pentagon |-> [type |-> "window", start_hour |-> 18, end_hour |-> 6, interval_hours |-> 1,
                 timezone |-> "EST"],
   bnti |-> [type |-> "interval", interval_hours |-> 12],
   daily_briefing |-> [type |-> "daily", hour |-> 8, timezone |-> "TRT"]]

\* the order `for name in self.schedules` visits the tasks in
TaskOrder == << "inflation", "pentagon", "bnti", "daily_briefing" >>
Tasks == {TaskOrder[k] : k \in 1..Len(TaskOrder)}

\* no entry in last_runs
Never == -1

\* the hours the clock runs over, and the hours between two readings of it
MaxHours == 14
HoursPerTick == 2

\* datetime.now(tz).hour when the host's naive clock reads now: Istanbul is
\* host_clock.ahead hours behind the host, New York 8 hours behind Istanbul
\* (7 for some weeks of the year)
HourIn(timezone, now) ==
  IF timezone = "TRT" THEN (now - host_clock.ahead + 48) % 24
  ELSE (now - host_clock.ahead - 8 + 48) % 24

\* mutant: the two comparisons of a window that crosses midnight exchanged
InWindowExchanged(start, end, current_hour) ==
  IF start > end THEN current_hour >= end \/ current_hour < start
  ELSE start <= current_hour /\ current_hour < end

\* is_task_due: in_window
InWindow(start, end, current_hour) ==
  IF start > end THEN current_hour >= start \/ current_hour < end
  ELSE start <= current_hour /\ current_hour < end

\* mutant: a task is due at every check
IsTaskDueAlways(task_name, last_run, now) == TRUE

\* Scheduler.is_task_due, for a task of SCHEDULES
IsTaskDue(task_name, last_run, now) ==
  LET schedule == SCHEDULES[task_name]
  IN  IF schedule.type = "interval"
      THEN last_run = Never \/ now - last_run >= schedule.interval_hours
      ELSE IF schedule.type = "window"
      THEN LET current_hour == HourIn(schedule.timezone, now)
               in_window == InWindow(schedule.start_hour, schedule.end_hour, current_hour)
           IN  in_window /\ (last_run = Never \/ now - last_run >= schedule.interval_hours)
      ELSE /\ HourIn(schedule.timezone, now) >= schedule.hour
           /\ (last_run = Never \/ last_run \div 24 < now \div 24)

\* Scheduler.get_due_tasks, in the order of SCHEDULES
GetDueTasks(runs, now) ==
  SelectSeq(TaskOrder, LAMBDA name : IsTaskDue(name, runs[name], now))

\* the hosts: one on Istanbul time started at midnight, one 6 hours ahead of
\* Istanbul started at 14:00, which is 08:00 in Istanbul
HostClocks == {[ahead |-> 0, start |-> 0], [ahead |-> 6, start |-> 14]}

\* run_task was not called yet
NoRun == [outcome |-> "none", returned |-> FALSE]

\* Scheduler.__init__ with no state file
SchedulerIdle ==
  /\ host_clock = [ahead |-> 0, start |-> 0]
  /\ run_result = NoRun
  /\ sched_now = 0
  /\ last_runs = [name \in Tasks |-> Never]
  /\ state_file = last_runs
  /\ due_tasks = << >>
  /\ checked_at = Never
  /\ due_found = {}
  /\ prev_runs = [name \in Tasks |-> Never]
  /\ sched_pc = "idle"

\* Scheduler.__init__: load_state reads what an earlier scheduler saved
SchedulerInit ==
  /\ host_clock \in HostClocks
  /\ run_result = NoRun
  /\ sched_now = host_clock.start
  /\ last_runs \in {[name \in Tasks |-> Never],
                    [name \in Tasks |-> IF name = "inflation" THEN sched_now ELSE Never]}
  /\ state_file = last_runs
  /\ due_tasks = << >>
  /\ checked_at = Never
  /\ due_found = {}
  /\ prev_runs = [name \in Tasks |-> Never]
  /\ sched_pc = "idle"

\* time passes: during time.sleep, or while a task runs
Tick ==
  /\ sched_now + HoursPerTick <= host_clock.start + MaxHours
  /\ sched_now' = sched_now + HoursPerTick
  /\ UNCHANGED << last_runs, state_file, due_tasks, checked_at, due_found, prev_runs,
                  sched_pc, host_clock, run_result >>

\* run_due_tasks: due_tasks = self.get_due_tasks()
CheckDue ==
  /\ sched_pc = "idle"
  /\ due_tasks' = GetDueTasks(last_runs, sched_now)
  /\ checked_at' = sched_now
  /\ due_found' = {due_tasks'[k] : k \in 1..Len(due_tasks')}
  /\ sched_pc' = IF due_tasks' = << >> THEN "idle" ELSE "running"
  /\ UNCHANGED << sched_now, last_runs, state_file, prev_runs, host_clock, run_result >>

\* the tasks run_task hands to AIDirector.run_module
DirectorTasks == {"inflation", "pentagon", "bnti"}

\* how the work of a task can end: it succeeds ("ok"), run_module returns
\* False ("failed"), or an exception reaches run_task ("raised")
Outcomes(task) == IF task \in DirectorTasks THEN {"ok", "failed", "raised"} ELSE {"ok", "raised"}

\* Scheduler.mark_run
MarkRun(task) ==
  /\ last_runs' = [last_runs EXCEPT ![task] = sched_now]
  /\ state_file' = last_runs'
  /\ prev_runs' = IF SCHEDULES[task].type = "window" THEN prev_runs
                  ELSE [prev_runs EXCEPT ![task] = last_runs[task]]

\* run_due_tasks: self.run_task(task) for the next due task.  The value of
\* run_module is dropped, so the task is marked and True returned unless an
\* exception was raised
RunTask(outcome) ==
  /\ sched_pc = "running"
  /\ outcome \in Outcomes(Head(due_tasks))
  /\ IF outcome = "raised"
     THEN /\ run_result' = [outcome |-> outcome, returned |-> FALSE]
          /\ UNCHANGED << last_runs, state_file, prev_runs >>
     ELSE /\ MarkRun(Head(due_tasks))
          /\ run_result' = [outcome |-> outcome, returned |-> TRUE]
  /\ due_tasks' = Tail(due_tasks)
  /\ sched_pc' = IF due_tasks' = << >> THEN "idle" ELSE "running"
  /\ UNCHANGED << sched_now, checked_at, due_found, host_clock >>

(***************************************************************************)
(* The stages of the codec, each called on its own: the Extractor (the end *)
(* of extract_from_audio), the Spreader and the Modulator (embed_in_audio, *)
(* DSSSMasker._spread_bits and _modulate) and the Correlator (the loop of  *)
(* extract_from_audio).                                                    *)
(***************************************************************************)
\* extract_from_audio from "Convert bits to bytes" on, for the bits its loop
\* has appended
ExtractFromBits(bits) == ExtractMessage(BitsToBytes(bits))

\* no stage was called yet
StageIdle ==
  /\ stage_op = "none"
  /\ stage_payload = << >>
  /\ stage_bits = << >>
  /\ stage_rate = SAMPLE_RATE
  /\ stage_samples = << >>
  /\ stage_out = << >>

\* the Extractor on the frame of a payload followed by the bits in tail
StageExtract(payload, tail) ==
  /\ stage_op = "none"
  /\ Len(FrameBits(payload)) + Len(tail) <= MaxBits
  /\ stage_op' = "extract"
  /\ stage_payload' = payload
  /\ stage_bits' = FrameBits(payload) \o tail
  /\ stage_out' = ExtractFromBits(stage_bits')
  /\ UNCHANGED << stage_rate, stage_samples >>

\* the Spreader on a list of bits
StageSpread(bits) ==
  /\ stage_op = "none"
  /\ stage_op' = "spread"
  /\ stage_bits' = bits
  /\ stage_out' = SpreadBits(bits)
  /\ UNCHANGED << stage_payload, stage_rate, stage_samples >>

\* the Modulator on the chips of a list of bits, at a sample rate
StageModulate(bits, rate) ==
  /\ stage_op = "none"
  /\ stage_op' = "modulate"
  /\ stage_bits' = bits
  /\ stage_rate' = rate
  /\ stage_samples' = SpreadBits(bits)
  /\ stage_out' = Modulate(stage_samples', rate)
  /\ UNCHANGED stage_payload

\* the Correlator on a waveform, at a sample rate
StageCorrelate(samples, rate) ==
  /\ stage_op = "none"
  /\ stage_op' = "correlate"
  /\ stage_rate' = rate
  /\ stage_samples' = samples
  /\ stage_out' = DemodulateBits(samples, rate, MaxBits)
  /\ UNCHANGED << stage_payload, stage_bits >>

\* do_encode in a build without the cryptography package, on a carrier of
\* silence as long as the modulated signal: CryptoHelper.encrypt, then
\* embed_in_audio with the SNR spin box at its default
StageEncode(message, password, salt, nonce, rate) ==
  LET sealed == Encrypt(message, password, salt, nonce, FALSE)
      carrier == Tone(ModulatedLen(Len(sealed.blob), rate), 0)
  IN  /\ stage_op = "none"
      /\ Len(message) > 0 /\ Len(password) > 0
      /\ sealed.status = "ok"
      /\ stage_op' = "encoded"
      /\ stage_payload' = sealed.blob
      /\ stage_bits' = FrameBits(sealed.blob)
      /\ stage_rate' = rate
      /\ stage_samples' = EmbedInAudio(carrier, sealed.blob, rate, DEFAULT_SNR).samples
      /\ UNCHANGED stage_out

\* extract_from_audio on the waveform do_encode made, at its sample rate
StageDecode ==
  /\ stage_op = "encoded"
  /\ stage_op' = "decoded"
  /\ stage_out' = ExtractFromBits(DemodulateBits(stage_samples, stage_rate, MaxBits))
  /\ UNCHANGED << stage_payload, stage_bits, stage_rate, stage_samples >>

\* the masker's Correlator on a waveform, at its SAMPLE_RATE
StageMaskerCorrelate(samples) ==
  /\ stage_op = "none"
  /\ stage_op' = "masker_correlate"
  /\ stage_rate' = SAMPLE_RATE
  /\ stage_samples' = samples
  /\ stage_out' = MaskerDemodulateBits(samples, MaskerMaxBits)
  /\ UNCHANGED << stage_payload, stage_bits >>

(* Specifications.                                                         *)
(***************************************************************************)
\* the seeds the global random state can start from
RngSeeds == 0..2

MaskerIdle == MaskerInit(DEFAULT_SNR) /\ rng_state = 0

\* the parts a specification does not exercise stay as constructed
AppIdle == SessionIdle /\ StudioIdle /\ ReceiverIdle /\ SchedulerIdle /\ StageIdle

CryptoIdle == CryptoInit /\ crypto_available

InitCodec == EngineInit /\ MaskerIdle /\ CryptoIdle /\ AppIdle

NextCodec ==
  \/ /\ codec_pc = "idle" /\ masker_pc = "idle"
     /\ \E v \in {SNR_MIN - SnrMargin} : SetSnr(v)
     /\ UNCHANGED << maskerVars, cryptoVars, appVars >>
  \/ /\ masker_pc = "idle"
     /\ \E m \in ShortPayloads, r \in SampleRates : \E c \in CarriersFor(m, r) : Embed(c, m, r)
     /\ UNCHANGED << maskerVars, cryptoVars, appVars >>
  \/ /\ masker_pc = "idle" /\ engine_snr_db = DEFAULT_SNR
     /\ Embed(Tone(ModulatedLen(MaxMessageBytes, 1000), 0), LongPayload, 1000)
     /\ UNCHANGED << maskerVars, cryptoVars, appVars >>
  \/ /\ masker_pc = "idle"
     /\ \E b \in PayloadBytes :
          Embed(Tone(ModulatedLen(1, SAMPLE_RATE), 0), << b >>, SAMPLE_RATE)
     /\ UNCHANGED << maskerVars, cryptoVars, appVars >>
  \/ /\ codec_pc = "idle" /\ engine_snr_db = DEFAULT_SNR
     /\ \E m \in MaskerPayloads : \E c \in MaskerCarriersFor(m) : MaskerEmbed(c, m)
     /\ UNCHANGED << codecVars, cryptoVars, appVars >>
  \/ \E r \in {embed_rate, SAMPLE_RATE} : Extract(r) /\ UNCHANGED << maskerVars, cryptoVars, appVars >>

SpecCodec == InitCodec /\ [][NextCodec]_vars

InitSnr ==
  EngineInit /\ (\E v \in SnrRequests : MaskerInit(v)) /\ rng_state = 0 /\ CryptoIdle /\ AppIdle

NextSnr ==
  \/ \E v \in SnrRequests : SetSnr(v) /\ UNCHANGED << maskerVars, cryptoVars, appVars >>
  \/ \E v \in SnrRequests : MaskerSetSnr(v) /\ UNCHANGED << codecVars, cryptoVars, appVars >>

SpecSnr == InitSnr /\ [][NextSnr]_vars

InitCrypto == EngineInit /\ MaskerIdle /\ CryptoInit /\ AppIdle

NextCrypto ==
  \/ \E p \in Plaintexts, pw \in Passwords, salt \in Salts, nonce \in Nonces :
       Seal(p, pw, salt, nonce) /\ UNCHANGED << codecVars, maskerVars, appVars >>
  \/ \E blob \in SealedBlobs \cup ForeignBlobs, pw \in Passwords :
       Open(blob, pw) /\ UNCHANGED << codecVars, maskerVars, appVars >>

SpecCrypto == InitCrypto /\ [][NextCrypto]_vars

\* the masker alone: both masking modes, then extract_from_audio
MaskerNoisePayloads == {<< >>, << 65 >>, << 255 >>}

\* carriers of the modulated length, a little longer, and one byte longer
MaskerLongCarriersFor(payload) ==
  LET Lm == MaskerModulatedLen(Len(payload))
  IN  {Tone(Lm, level) : level \in {0, 50000, 99000}}
        \cup {Tone(Lm + 3, 50000), Tone(Lm + MaskerModulatedLen(1), 50000)}

\* a silent carrier two windows longer than the longest frame the engine reads
OverlongCarrier ==
  Tone(ModulatedLen(MaxMessageBytes, 1000) + 2 * SPREADING_FACTOR * SamplesPerChip(1000), 0)

InitMasker ==
  /\ EngineInit /\ CryptoIdle /\ AppIdle
  /\ MaskerInit(DEFAULT_SNR)
  /\ rng_state \in RngSeeds

NextMasker ==
  \/ /\ masker_pc = "idle" /\ codec_pc = "idle"
     /\ \E v \in {SNR_MIN - SnrMargin, SNR_MAX + SnrMargin} : MaskerSetSnr(v)
     /\ UNCHANGED << codecVars, cryptoVars, appVars >>
  \/ /\ codec_pc = "idle"
     /\ \E m \in MaskerNoisePayloads : MaskerGenerate(m)
     /\ UNCHANGED << codecVars, cryptoVars, appVars >>
  \/ /\ codec_pc = "idle"
     /\ \E m \in MaskerPayloads : \E c \in MaskerLongCarriersFor(m) : MaskerEmbed(c, m)
     /\ UNCHANGED << codecVars, cryptoVars, appVars >>
  \/ MaskerExtract /\ UNCHANGED << codecVars, cryptoVars, appVars >>
  \/ /\ masker_pc = "idle" /\ masker_snr_db = DEFAULT_SNR /\ rng_state = 0
     /\ \E m \in MaskerPayloads : \E c \in CarriersFor(m, 1000) : Embed(c, m, 1000)
     /\ UNCHANGED << maskerVars, cryptoVars, appVars >>
  \/ /\ masker_pc = "idle" /\ masker_snr_db = DEFAULT_SNR /\ rng_state = 0
     /\ Embed(OverlongCarrier, LongPayload, 1000)
     /\ UNCHANGED << maskerVars, cryptoVars, appVars >>
  \/ Extract(embed_rate) /\ UNCHANGED << maskerVars, cryptoVars, appVars >>

SpecMasker == InitMasker /\ [][NextMasker]_vars

\* callers on one engine, one masker and one random state
InitSession ==
  /\ EngineInit /\ CryptoIdle
  /\ MaskerInit(DEFAULT_SNR)
  /\ rng_state \in RngSeeds
  /\ SessionInit
  /\ StudioIdle /\ ReceiverIdle /\ SchedulerIdle /\ StageIdle

NextSession ==
  \/ \E t \in Callers : CallSetSnr(t) /\ UNCHANGED << maskerVars, cryptoVars, studioVars, rxCryptoVars, packetVars, processorVars,
                     schedulerVars, stageVars >>
  \/ \E t \in Callers :
       CallEmbed(t)
       /\ UNCHANGED << codecVars, maskerVars, cryptoVars, studioVars, rxCryptoVars, packetVars,
                       processorVars,
                     schedulerVars, stageVars >>
  \/ \E t \in Callers : CallGenerate(t)
       /\ UNCHANGED << codecVars, cryptoVars, studioVars, rxCryptoVars, packetVars, processorVars,
                     schedulerVars, stageVars >>

SpecSession == InitSession /\ [][NextSession]_vars

\* the Studio: frame rates of carrier files, the carriers, the encrypted
\* blobs (shortened) and the SNR spin box
WavRates == {1000, 2000, SAMPLE_RATE}

StudioBlobs == {<< 65 >>, << 255 >>}

StudioCarriers(framerate) ==
  LET Lm == ModulatedLen(1, framerate)
  IN  IF framerate = SAMPLE_RATE THEN {Tone(Lm, 0)}
      ELSE {Tone(Lm, 0), Tone(Lm + 3, 50000), Tone(Lm - 1, 0), << >>}

InitStudio ==
  /\ EngineInit /\ MaskerIdle /\ CryptoIdle /\ SessionIdle /\ StudioIdle /\ ReceiverIdle
  /\ SchedulerIdle /\ StageIdle

NextStudio ==
  \/ /\ \E r \in WavRates : \E c \in StudioCarriers(r) : OnCarrierLoaded(c, r)
     /\ UNCHANGED << maskerVars, cryptoVars, sessionVars, rxCryptoVars, packetVars, processorVars,
                     schedulerVars, stageVars >>
  \/ /\ \E e \in StudioBlobs, v \in {SNR_MIN, DEFAULT_SNR, SNR_MAX} : DoEncode(e, v)
     /\ UNCHANGED << maskerVars, cryptoVars, sessionVars, rxCryptoVars, packetVars, processorVars,
                     schedulerVars, stageVars >>
  \/ OnStegoLoaded /\ UNCHANGED << maskerVars, cryptoVars, sessionVars, rxCryptoVars, packetVars, processorVars,
                     schedulerVars, stageVars >>
  \/ /\ \E pw \in {<< >>, << 97 >>} : DoDecode(pw)
     /\ UNCHANGED << maskerVars, cryptoVars, sessionVars, rxCryptoVars, packetVars, processorVars,
                     schedulerVars, stageVars >>

SpecStudio == InitStudio /\ [][NextStudio]_vars

\* packets: messages with colons and two-byte characters, targets, priorities
PacketMessages == SeqsUpTo({65, Colon, 233}, 2)
PacketTargets == {<< >>, << 65, 76, 76 >>, << 65, Colon >>}
PacketPriorities == PRIORITY_COLORS \cup {<< 70 >>}

InitPacket ==
  /\ EngineInit /\ MaskerIdle /\ CryptoIdle /\ SessionIdle /\ StudioIdle /\ SchedulerIdle /\ StageIdle
  /\ rx_crypto_available \in BOOLEAN
  /\ CryptoEngineInit /\ PacketIdle /\ ProcessorInit

NextPacket ==
  \/ /\ \E m \in PacketMessages, t \in PacketTargets, p \in PacketPriorities :
          EncryptPacketCall(m, t, p)
     /\ UNCHANGED << codecVars, maskerVars, cryptoVars, sessionVars, studioVars, processorVars,
                     schedulerVars, stageVars >>
  \/ DecryptPayloadCall
       /\ UNCHANGED << codecVars, maskerVars, cryptoVars, sessionVars, studioVars, processorVars,
                     schedulerVars, stageVars >>
  \/ BurnKeys /\ UNCHANGED << codecVars, maskerVars, cryptoVars, sessionVars, studioVars, processorVars,
                     schedulerVars, stageVars >>

SpecPacket == InitPacket /\ [][NextPacket]_vars

\* the receiver with its threads: a packet the Commander builds, and a text
\* that is no packet
TriggerTexts == {Utf8DecodeFrom(EncryptPacket(<< 65 >>, << 65, 76, 76 >>, PRIORITY_FLASH), 1),
                 << 65 >>}

InitReceiver ==
  /\ EngineInit /\ MaskerIdle /\ CryptoIdle /\ SessionIdle /\ StudioIdle /\ SchedulerIdle /\ StageIdle
  /\ rx_crypto_available \in BOOLEAN
  /\ CryptoEngineInit /\ PacketIdle /\ ProcessorInit

\* what the receiver's threads leave alone
beyondReceiver ==
  << codecVars, maskerVars, cryptoVars, sessionVars, studioVars, packetVars, schedulerVars, stageVars >>

NextReceiver ==
  \/ \E msg \in TriggerTexts : SimInject(msg) /\ UNCHANGED beyondReceiver
  \/ ProcGet /\ UNCHANGED beyondReceiver
  \/ ProcExit /\ UNCHANGED beyondReceiver
  \/ ProcCheckBurned /\ UNCHANGED beyondReceiver
  \/ ProcParse /\ UNCHANGED beyondReceiver
  \/ ProcHandle /\ UNCHANGED beyondReceiver
  \/ BurnWipeKey /\ UNCHANGED beyondReceiver
  \/ BurnSetFlag /\ UNCHANGED beyondReceiver
  \/ PanicWipeRest /\ UNCHANGED beyondReceiver
  \/ CloseEvent /\ UNCHANGED beyondReceiver

SpecReceiver == InitReceiver /\ [][NextReceiver]_vars

\* one scheduler process, its clock never set back
beyondScheduler ==
  << codecVars, maskerVars, cryptoVars, sessionVars, studioVars, rxCryptoVars, packetVars,
     processorVars, stageVars >>

InitScheduler ==
  /\ EngineInit /\ MaskerIdle /\ CryptoIdle /\ SessionIdle /\ StudioIdle /\ ReceiverIdle
  /\ SchedulerInit /\ StageIdle

NextScheduler ==
  \/ Tick /\ UNCHANGED beyondScheduler
  \/ CheckDue /\ UNCHANGED beyondScheduler
  \/ \E outcome \in {"ok", "failed", "raised"} : RunTask(outcome) /\ UNCHANGED beyondScheduler

SpecScheduler == InitScheduler /\ [][NextScheduler]_vars

\* the stages alone.  Payloads up to the longest the Extractor reads, each
\* followed by bits that are no part of its frame
StagePayloads ==
  ShortPayloads \cup {LongPayload, SubSeq(LongPayload, 1, MaxMessageBytes - 1)}

StageTails ==
  SeqsUpTo({0, 1}, MaxLen)
    \cup {BytesToBits(<< 255 >>), BytesToBits(<< 65 >>), BytesToBits(<< 255, 65 >>),
          [i \in 1..9 |-> 1]}

StageBits == SeqsUpTo({0, 1}, MaxLen + 1)

\* sample rates: below one sample per chip, whole numbers of samples per
\* chip, a rate between two, and the default
StageRates == {800, 1000, 1600, 2000, SAMPLE_RATE}

\* waveforms of two correlation windows: modulated signals, the same
\* followed by three silent samples, silence, a tone, and a tone shorter
\* than one window
StageWaveforms(rate) ==
  LET signals == {Modulate(SpreadBits(bits), rate) : bits \in {b \in StageBits : Len(b) = 2}}
      window == SPREADING_FACTOR * SamplesPerChip(rate)
  IN  signals
        \cup {signal \o << 0, 0, 0 >> : signal \in signals}
        \cup {Tone(2 * window + 3, 0), Tone(2 * window + 3, 100), Tone(window - 1, 100)}

\* the bytes encrypt puts before the ciphertext
SealedHeaderLen == Len(MAGIC_HEADER) + SALT_LEN + NONCE_LEN

\* messages: one character, the longest whose sealed blob has
\* MaxMessageBytes bytes, and one character more
StageMessages ==
  {[i \in 1..n |-> 65] :
     n \in {1, MaxMessageBytes - SealedHeaderLen, MaxMessageBytes - SealedHeaderLen + 1}}

beyondStages ==
  << codecVars, maskerVars, cryptoVars, sessionVars, studioVars, rxCryptoVars, packetVars,
     processorVars, schedulerVars >>

InitStages ==
  /\ EngineInit /\ MaskerIdle /\ CryptoIdle
  /\ SessionIdle /\ StudioIdle /\ ReceiverIdle /\ SchedulerIdle
  /\ StageIdle

NextStages ==
  \/ \E payload \in StagePayloads, tail \in StageTails :
       StageExtract(payload, tail) /\ UNCHANGED beyondStages
  \/ \E bits \in StageBits : StageSpread(bits) /\ UNCHANGED beyondStages
  \/ \E bits \in {<< 1 >>, << 0, 1 >>}, rate \in StageRates :
       StageModulate(bits, rate) /\ UNCHANGED beyondStages
  \/ \E rate \in SampleRates : \E samples \in StageWaveforms(rate) :
       StageCorrelate(samples, rate) /\ UNCHANGED beyondStages
  \/ \E samples \in StageWaveforms(SAMPLE_RATE) :
       StageMaskerCorrelate(samples) /\ UNCHANGED beyondStages
  \/ \E message \in StageMessages, nonce \in Nonces :
       StageEncode(message, << 97 >>, Zeros(SALT_LEN), nonce, 1000) /\ UNCHANGED beyondStages
  \/ StageDecode /\ UNCHANGED beyondStages

SpecStages == InitStages /\ [][NextStages]_vars



(***************************************************************************)
(* Claims about the framer, the engine and the extractor (SpecCodec).      *)
(***************************************************************************)
\* the bits read as an unsigned integer, most significant first
RECURSIVE Unsigned(_, _)
Unsigned(bits, n) == IF n = 0 THEN 0 ELSE 2 * Unsigned(bits, n - 1) + bits[n]

Silent(audio) == \A n \in DOMAIN audio : audio[n] = 0

\* the value of sample n of a waveform equals c / UNIT
SampleIs(audio, n, c) == RatEq(audio.samples[n] * audio.gain[1], audio.gain[2], c, UNIT)

\* the call extracted the modulated signal alone: a silent carrier of exactly
\* the modulated length, decoded at the rate it was encoded at
Noiseless ==
  /\ codec_pc = "extracted"
  /\ Silent(carrier_audio)
  /\ Len(carrier_audio) = ModulatedLen(Len(embed_message), embed_rate)
  /\ decode_rate = embed_rate

\* C1: with no noise injected, for every payload of 0 to 256 bytes the bits
\* demodulated and correlated from modulate(spread(frame(p))) are exactly the
\* bits of frame(p), and extraction returns exactly p.
C1_NoiselessRoundTrip ==
  (Noiseless /\ Len(embed_message) <= MaxMessageBytes)
    => /\ extracted_bits = embed_bits
       /\ extracted_bytes = embed_message

C1_Witness ==
  /\ Noiseless
  /\ Len(embed_message) = MaxLen
  /\ extracted_bytes = embed_message

C1_WitnessLongest ==
  /\ Noiseless
  /\ Len(embed_message) = MaxMessageBytes
  /\ extracted_bytes = embed_message

C1_WitnessDefaultRate ==
  /\ Noiseless
  /\ embed_rate = SAMPLE_RATE
  /\ extracted_bytes = embed_message
  /\ embed_message # << >>

\* C6 (as claimed): extract returns an empty result when fewer than 32 bits are
\* available and when the header declares N bytes but fewer than N*8 bits
\* remain after the header; it never returns a partial payload.
C6_ShortInputYieldsEmpty ==
  codec_pc = "extracted"
    => LET got == BitsToBytes(extracted_bits)
       IN  /\ Len(extracted_bits) < HeaderBits => extracted_bytes = << >>
           /\ (Len(extracted_bits) >= HeaderBits
                 /\ 8 * MessageLength(got) > Len(extracted_bits) - HeaderBits)
                => extracted_bytes = << >>

\* C6, the part the code keeps: fewer than 32 bits give an empty result, and
\* the result never holds more bytes than were demodulated after the header.
C6_NoHeaderYieldsEmpty ==
  codec_pc = "extracted"
    => /\ Len(extracted_bits) < HeaderBits => extracted_bytes = << >>
       /\ 8 * Len(extracted_bytes) <= Max(0, Len(extracted_bits) - HeaderBits)

\* C7: frame(b) is the 4-byte big-endian byte count of b followed by b, each
\* byte expanded most significant bit first: 8*(4+len(b)) bits, the first 32
\* of which read as an unsigned integer give the number of bytes that follow.
C7_FrameIsLengthPrefixed ==
  codec_pc # "idle"
    => /\ Len(embed_bits) = 8 * (4 + Len(embed_message))
       /\ Unsigned(embed_bits, HeaderBits) = Len(embed_message)
       /\ 8 * Unsigned(embed_bits, HeaderBits) = Len(embed_bits) - HeaderBits
       /\ \A i \in 1..Len(embed_message) :
            Unsigned([j \in 1..8 |-> embed_bits[HeaderBits + 8 * (i - 1) + j]], 8)
              = embed_message[i]

C7_Witness ==
  /\ codec_pc = "embedded"
  /\ Len(embed_message) = MaxLen
  /\ embed_message[1] # embed_message[MaxLen]

\* samples of a carrier that lie at or beyond the end of the embedded signal
BeyondOf(carrier, modulated_len) == {n \in DOMAIN carrier : n > modulated_len}

Beyond == BeyondOf(carrier_audio, ModulatedLen(Len(embed_message), embed_rate))

MaskerBeyond == BeyondOf(masker_carrier, MaskerModulatedLen(Len(masker_payload)))

Embedded == codec_pc = "embedded" /\ stego_audio.status = "ok"

MaskerEmbedded == masker_pc = "embedded" /\ masker_output.status = "ok"

\* the output has the carrier's length and equals it on the given samples
UntouchedOn(carrier, output, region) ==
  /\ Len(output.samples) = Len(carrier)
  /\ \A n \in region : SampleIs(output, n, carrier[n])

\* C10 (as claimed): the output has the carrier's length and every output
\* sample at or beyond the end of the embedded signal equals the carrier's,
\* for the engine's embed_in_audio and the masker's generate_with_carrier.
C10_CarrierUntouchedBeyond ==
  /\ Embedded => UntouchedOn(carrier_audio, stego_audio, Beyond)
  /\ MaskerEmbedded => UntouchedOn(masker_carrier, masker_output, MaskerBeyond)

\* the peak of carrier + signal before the rescaling
MixedPeak(output) == Peak(output.samples)

\* the output has the carrier's length and on the given samples it equals the
\* carrier, times 0.99 / peak when the peak of the sum is above 1.0
ScaledOn(carrier, output, region) ==
  /\ Len(output.samples) = Len(carrier)
  /\ \A n \in region :
       IF MixedPeak(output) <= UNIT
       THEN SampleIs(output, n, carrier[n])
       ELSE RatEq(output.samples[n] * output.gain[1], output.gain[2],
                  carrier[n] * 99, 100 * MixedPeak(output))

\* C10 (amended): for a non-empty carrier the output has the carrier's length,
\* a longer modulated signal is cut to it, and a sample at or beyond the end
\* of the embedded signal equals the carrier's when the peak of the sum is at
\* most 1.0, and the carrier's times 0.99 / peak when it is above; an empty
\* carrier makes np.max raise ValueError.
C10_CarrierScaledBeyond ==
  /\ codec_pc = "embedded" => (stego_audio.status = "ok" <=> Len(carrier_audio) > 0)
  /\ masker_pc = "embedded" => (masker_output.status = "ok" <=> Len(masker_carrier) > 0)
  /\ Embedded => ScaledOn(carrier_audio, stego_audio, Beyond)
  /\ MaskerEmbedded => ScaledOn(masker_carrier, masker_output, MaskerBeyond)

C10_Witness ==
  /\ Embedded
  /\ Beyond # {}
  /\ MixedPeak(stego_audio) > UNIT
  /\ \E n \in Beyond : carrier_audio[n] # 0

C10_WitnessMasker ==
  /\ MaskerEmbedded
  /\ Len(masker_payload) > 0
  /\ MaskerBeyond # {}
  /\ MixedPeak(masker_output) > UNIT
  /\ \E n \in MaskerBeyond : masker_carrier[n] # 0

C10_WitnessTruncated ==
  /\ Embedded
  /\ Len(carrier_audio) < ModulatedLen(Len(embed_message), embed_rate)
  /\ Len(stego_audio.samples) = Len(carrier_audio)

C10_WitnessEmptyCarrier ==
  /\ codec_pc = "embedded"
  /\ Len(carrier_audio) = 0
  /\ stego_audio.status = "ValueError"


(***************************************************************************)
(* Claims about the crypto envelope (SpecCrypto).                          *)
(***************************************************************************)
HEADER_LEN == Len(MAGIC_HEADER) + SALT_LEN + NONCE_LEN

Sealed == crypto_pc # "start" /\ seal_result.status = "ok"

\* decrypt was called on the whole blob the encrypt call returned
OpenedSealed == crypto_pc = "opened" /\ Sealed /\ open_blob = seal_result.blob

\* C2 (as claimed): for every payload and every password, seal returns a blob
\* and opening that blob with the same password yields exactly the payload.
C2_SealOpenRoundTrip ==
  /\ crypto_pc # "start" => seal_result.status = "ok"
  /\ (OpenedSealed /\ open_password = seal_password)
       => (open_result.status = "ok" /\ open_result.text = seal_plaintext)

\* C2, what the code keeps: without the cryptography package and with a
\* non-empty password the round trip holds.
C2_FallbackRoundTrip ==
  /\ (crypto_pc # "start" /\ ~crypto_available /\ seal_password # << >>)
       => seal_result.status = "ok"
  /\ (OpenedSealed /\ open_password = seal_password)
       => (open_result.status = "ok" /\ open_result.text = seal_plaintext)

\* C3 (as claimed): opening a sealed blob with a different password never
\* returns the payload that was sealed.
C3_WrongPasswordDiffers ==
  (OpenedSealed /\ open_password # seal_password)
    => ~(open_result.status = "ok" /\ open_result.text = seal_plaintext)

\* C4 (as claimed): opening a blob that starts with MAGIC never raises,
\* whatever the password, and nothing distinguishes the outcome from a
\* correct decrypt.
C4_OpenNeverRaises ==
  (crypto_pc = "opened" /\ StartsWith(open_blob, MAGIC_HEADER))
    => (open_result.status = "ok" /\ decode_status = "SUCCESS")

\* C4 (amended): opening a blob that starts with MAGIC never fails the format
\* check, but it can raise.  It returns text only when the decrypted bytes are
\* valid UTF-8, and that text is their decoding; when they are not valid
\* UTF-8 it raises UnicodeDecodeError, and every ValueError it raises is shown
\* by do_decode (which takes no empty password) as "Decryption failed - wrong
\* password?".
C4_OpenRaisesOnUndecodable ==
  (crypto_pc = "opened" /\ StartsWith(open_blob, MAGIC_HEADER))
    => /\ open_result.status # "InvalidData"
       /\ open_result.status = "ok"
            => /\ Utf8Valid(open_result.decrypted)
               /\ Utf8Encode(open_result.text) = open_result.decrypted
               /\ open_password # << >> => decode_status = "SUCCESS"
       /\ (~crypto_available /\ (open_password # << >> \/ open_result.ciphertext = << >>))
            => /\ open_result.status \in {"ok", "UnicodeDecodeError"}
               /\ open_result.status = "ok"
                    <=> Utf8Valid(XorWithKey(open_result.ciphertext,
                                             FallbackKey(open_password)))
       /\ (open_result.status \in {"UnicodeDecodeError", "NonceError"}
             /\ open_password # << >>)
            => decode_status = "Decryption failed - wrong password?"

\* a wrong password on a sealed blob: once reported as a failure, once not
C4_Witness ==
  /\ OpenedSealed
  /\ open_password # seal_password
  /\ open_result.status = "UnicodeDecodeError"
  /\ decode_status = "Decryption failed - wrong password?"

C4_WitnessSilent ==
  /\ OpenedSealed
  /\ open_password # seal_password
  /\ open_result.status = "ok"
  /\ open_result.text # seal_plaintext

\* C5 (as claimed): open fails with the format error, and returns no text,
\* for every blob that does not start with MAGIC and for every blob shorter
\* than the 39-byte header.
C5_MalformedBlobRejected ==
  (crypto_pc = "opened"
     /\ (~StartsWith(open_blob, MAGIC_HEADER) \/ Len(open_blob) < HEADER_LEN))
    => (open_result.status = "InvalidData" /\ open_result.text = << >>)

\* C5, the part the code keeps: a blob that does not start with MAGIC is
\* rejected with the format error.
C5_MissingMagicRejected ==
  (crypto_pc = "opened" /\ ~StartsWith(open_blob, MAGIC_HEADER))
    => (open_result.status = "InvalidData" /\ open_result.text = << >>)

\* C8: every sealed blob is MAGIC, the 16-byte salt, the 12-byte nonce and
\* the ciphertext: at least 39 bytes, exactly 39 plus the plaintext's byte
\* count; open reads salt, nonce and ciphertext from those offsets.
C8_SealedBlobLayout ==
  /\ Sealed
       => /\ Len(seal_result.blob) >= 39
          /\ Len(seal_result.blob) = 39 + Len(Utf8Encode(seal_plaintext))
          /\ SubSeq(seal_result.blob, 1, 11) = MAGIC_HEADER
          /\ Len(seal_salt) = 16 /\ SubSeq(seal_result.blob, 12, 27) = seal_salt
          /\ Len(seal_nonce) = 12 /\ SubSeq(seal_result.blob, 28, 39) = seal_nonce
  /\ OpenedSealed
       => /\ open_result.salt = seal_salt
          /\ open_result.nonce = seal_nonce
          /\ open_result.ciphertext = SubSeq(open_blob, 40, Len(open_blob))
          /\ Len(open_result.ciphertext) = Len(Utf8Encode(seal_plaintext))

\* a sealed text whose byte count differs from its character count, opened
C8_Witness ==
  /\ OpenedSealed
  /\ Len(Utf8Encode(seal_plaintext)) > Len(seal_plaintext)
  /\ Len(seal_plaintext) > 0
  /\ open_result.ciphertext # << >>

(***************************************************************************)
(* Claim about the SNR setting (SpecSnr).                                  *)
(***************************************************************************)
\* the legal value nearest to a request
Nearest(v) == IF v < -30 THEN -30 ELSE IF v > -10 THEN -10 ELSE v

\* C9: after construction and after any set_snr calls, the SNR of the masker
\* and of the engine lies in [-30, -10]; a request outside the range is
\* replaced by the nearer bound, one inside is kept.
C9_SnrClamped ==
  /\ engine_snr_db \in (-30)..(-10)
  /\ masker_snr_db \in (-30)..(-10)
  /\ engine_snr_db = Nearest(snr_request)
  /\ masker_snr_db = Nearest(masker_request)

C9_Witness ==
  /\ snr_request < -30 /\ engine_snr_db = -30
  /\ masker_request > -10 /\ masker_snr_db = -10

(***************************************************************************)
(* Claims about the masker (SpecMasker).                                   *)
(***************************************************************************)
\* every sample value of the waveform lies in [-1.0, 1.0]
InRange(w) == \A n \in DOMAIN w.samples : Abs(w.samples[n]) * w.gain[1] <= w.gain[2]

\* the peak value of a non-empty waveform is num / den
PeakIs(w, num, den) == RatEq(Peak(w.samples) * w.gain[1], w.gain[2], num, den)

\* a returned carrier-mode waveform: in range, and at peak 0.99 when the sum
\* of carrier and signal peaked above 1.0
CarrierModeBounded(w) ==
  /\ InRange(w)
  /\ Peak(w.samples) > UNIT => PeakIs(w, 99, 100)

MaskerReturned(mode) ==
  masker_pc # "idle" /\ masker_mode = mode /\ masker_output.status = "ok"

\* C11: every waveform a masking mode returns has all samples in [-1.0, 1.0];
\* in noise mode the peak after rescaling is at most 0.95, in carrier mode
\* (masker and engine) a sum that peaks above 1.0 is rescaled to a peak of 0.99.
C11_PeakBounded ==
  /\ MaskerReturned("noise")
       => /\ InRange(masker_output)
          /\ Peak(masker_output.samples) * masker_output.gain[1] * 100
               <= 95 * masker_output.gain[2]
  /\ MaskerReturned("carrier") => CarrierModeBounded(masker_output)
  /\ (codec_pc # "idle" /\ stego_audio.status = "ok") => CarrierModeBounded(stego_audio)

\* noise mode with noise above the signal's own peak, rescaled to 0.95
C11_Witness ==
  /\ MaskerReturned("noise")
  /\ Peak(masker_output.samples) > 200
  /\ PeakIs(masker_output, 95, 100)

C11_WitnessCarrier ==
  /\ MaskerReturned("carrier")
  /\ Peak(masker_output.samples) > UNIT
  /\ PeakIs(masker_output, 99, 100)

\* C12 (as claimed): encoding the empty payload produces a waveform without
\* error (given a carrier that is not empty, where one is used), and
\* decoding that waveform returns the empty byte string.
C12_EmptyRoundTrip ==
  /\ (masker_pc # "idle" /\ masker_payload = << >>
        /\ (masker_mode = "carrier" => Len(masker_carrier) > 0))
       => masker_output.status = "ok"
  /\ (masker_pc = "extracted" /\ masker_payload = << >>) => masker_extracted = << >>
  /\ (codec_pc # "idle" /\ embed_message = << >> /\ Len(carrier_audio) > 0)
       => stego_audio.status = "ok"
  /\ (codec_pc = "extracted" /\ embed_message = << >> /\ decode_rate = embed_rate)
       => extracted_bytes = << >>

\* C12, the part the code keeps: with a carrier that is not empty both carrier
\* modes encode the empty payload without error.
C12_EmptyPayloadEmbeds ==
  /\ (masker_pc # "idle" /\ masker_payload = << >> /\ masker_mode = "carrier"
        /\ Len(masker_carrier) > 0)
       => masker_output.status = "ok"
  /\ (codec_pc # "idle" /\ embed_message = << >> /\ Len(carrier_audio) > 0)
       => stego_audio.status = "ok"

\* the samples of one bit window
WindowLen(sample_rate) == SPREADING_FACTOR * SamplesPerChip(sample_rate)

\* C13: for a waveform of any length demodulation reads only whole windows
\* inside the waveform, so it yields at most floor(len / (31 *
\* samples_per_chip)) bits, and at most 2080 in the engine and 4096 in the
\* masker; decoding returns no more bytes than were demodulated (after the
\* header, in the engine): a truncated or empty result.
C13_WindowsInsideWaveform ==
  /\ codec_pc = "extracted"
       => /\ Len(extracted_bits) * WindowLen(decode_rate) <= Len(stego_audio.samples)
          /\ Len(extracted_bits) <= Len(stego_audio.samples) \div WindowLen(decode_rate)
          /\ Len(extracted_bits) <= 2080
          /\ 8 * Len(extracted_bytes) <= Max(0, Len(extracted_bits) - 32)
  /\ masker_pc = "extracted"
       => /\ Len(masker_bits) * WindowLen(SAMPLE_RATE) <= Len(masker_output.samples)
          /\ Len(masker_bits) <= Len(masker_output.samples) \div WindowLen(SAMPLE_RATE)
          /\ Len(masker_bits) <= 4096
          /\ 8 * Len(masker_extracted) <= Len(masker_bits)

\* the masker read a waveform that ends inside a window
C13_Witness ==
  /\ masker_pc = "extracted"
  /\ Len(masker_output.samples) % WindowLen(SAMPLE_RATE) # 0
  /\ Len(masker_bits) > 0

\* the engine read a waveform shorter than one window
C13_WitnessShort ==
  /\ codec_pc = "extracted"
  /\ 0 < Len(stego_audio.samples) /\ Len(stego_audio.samples) < WindowLen(decode_rate)
  /\ extracted_bits = << >> /\ extracted_bytes = << >>

\* the engine read a waveform shorter than the frame its header declares
C13_WitnessTruncated ==
  /\ codec_pc = "extracted"
  /\ Len(extracted_bits) >= 32
  /\ 8 * MessageLength(BitsToBytes(extracted_bits)) > Len(extracted_bits) - 32

\* the engine read a waveform longer than 2080 windows
C13_WitnessCapped ==
  /\ codec_pc = "extracted"
  /\ Len(stego_audio.samples) \div WindowLen(decode_rate) > 2080
  /\ Len(extracted_bits) = 2080

(***************************************************************************)
(* Claims about state between calls and about concurrent calls             *)
(* (SpecSession).                                                          *)
(***************************************************************************)
Done(t, kind) == call_pc[t] = "done" /\ call_kind[t] = kind

EncodeKeepsSnr ==
  (\E t \in Callers : call_pc[t] # "done" /\ call_pc'[t] = "done")
    => /\ engine_snr_db' = engine_snr_db
       /\ masker_snr_db' = masker_snr_db
       /\ call_carrier' = call_carrier

OnlySetSnrAndDrawsPersist ==
  /\ engine_snr_db = ClampSnr(snr_request)
  /\ \A t \in Callers :
       /\ call_carrier[t] = SessionCarrier
       /\ Done(t, "studio")
            => call_result[t] = EmbedInAudio(SessionCarrier, SessionPayload, SessionRate,
                                             ClampSnr(call_request[t]))
       /\ Done(t, "noise")
            => \E draw \in rng_start..(rng_state - 1) :
                 call_result[t] = GenerateMaskedAudio(SessionPayload, masker_snr_db, draw)

AloneResult(t) ==
  IF call_kind[t] = "studio"
  THEN EmbedInAudio(SessionCarrier, SessionPayload, SessionRate, ClampSnr(call_snr[t]))
  ELSE GenerateMaskedAudio(SessionPayload, DEFAULT_SNR, rng_start)

\* C15 (as claimed): under every interleaving each call returns what it
\* returns running alone with its own SNR, payload and random draws.
C15_ConcurrentCallsIndependent ==
  \A t \in Callers : call_pc[t] = "done" => call_result[t] = AloneResult(t)


(***************************************************************************)
(* C16: in the Studio, do_decode demodulates with the sample rate that     *)
(* do_encode embedded with, whatever the frame rate of the carrier file.   *)
(***************************************************************************)
StudioDecoded == studio_pc = "decoded" /\ codec_pc = "extracted"

C16_DecodeUsesEncodeRate == StudioDecoded => decode_rate = embed_rate

\* a carrier file at 1000 Hz with room for the whole frame, encoded, saved,
\* loaded and decoded: the frame is read at 44100 Hz and nothing comes back
C16_MessageRecoveredAtEveryRate ==
  (StudioDecoded /\ Len(carrier_audio) >= ModulatedLen(Len(embed_message), embed_rate))
    => extracted_bytes = embed_message


(***************************************************************************)
(* C17: DSSSMasker.extract_from_audio returns exactly the payload that     *)
(* generate_masked_audio or generate_with_carrier (carrier at least as     *)
(* long as the modulated signal) embedded, when no bit decision is         *)
(* flipped: no byte missing, none appended.                                *)
(***************************************************************************)
\* the bits read over the payload's windows are the payload's bits
NoBitFlipped ==
  /\ Len(masker_bits) >= 8 * Len(masker_payload)
  /\ SubSeq(masker_bits, 1, 8 * Len(masker_payload)) = BytesToBits(masker_payload)

MaskerRoundTripCase ==
  /\ masker_pc = "extracted"
  /\ masker_mode = "carrier" => Len(masker_carrier) >= MaskerModulatedLen(Len(masker_payload))
  /\ NoBitFlipped

C17_MaskerRoundTrip == MaskerRoundTripCase => masker_extracted = masker_payload

\* what holds: the payload comes back when the waveform ends before the
\* eighth window after the payload's last one
C17_ExactWithoutSpareWindows ==
  (MaskerRoundTripCase
     /\ Len(masker_output.samples) < MaskerModulatedLen(Len(masker_payload) + 1))
    => masker_extracted = masker_payload


(***************************************************************************)
(* C18: for a non-empty message (colons allowed), a target without a       *)
(* colon and one of the four priorities, decrypt_payload of the packet     *)
(* encrypt_packet built returns (message, VERIFIED, priority) on an        *)
(* unburned receiver.                                                      *)
(***************************************************************************)
PacketCase ==
  /\ packet_pc = "returned"
  /\ ~is_burned
  /\ packet_plaintext # << >>
  /\ \A i \in 1..Len(packet_target) : packet_target[i] # Colon
  /\ \E k \in 1..Len(PRIORITIES) : packet_priority = PRIORITIES[k]

PacketRecovered ==
  /\ packet_result.plaintext = packet_plaintext
  /\ packet_result.status = "VERIFIED"
  /\ packet_result.priority = packet_priority

C18_PacketRoundTrip == PacketCase => PacketRecovered

\* as it holds: on a receiver where the cryptography package was imported;
\* without it the whole packet text comes back unparsed, as ROUTINE
C18_PacketRoundTripWithCrypto ==
  /\ (PacketCase /\ rx_crypto_available) => PacketRecovered
  /\ (PacketCase /\ ~rx_crypto_available) =>
       /\ packet_result.plaintext = Utf8DecodeFrom(packet_blob, 1)
       /\ packet_result.status = "CRYPTO UNAVAILABLE"
       /\ packet_result.priority = PRIORITY_ROUTINE

C18_Witness ==
  /\ PacketCase /\ rx_crypto_available /\ PacketRecovered
  /\ packet_plaintext = << Colon, 65 >>
  /\ packet_priority = PRIORITY_FLASH
  /\ messages_decrypted = 1

C18_WitnessNoCrypto ==
  /\ PacketCase /\ ~rx_crypto_available
  /\ packet_result.status = "CRYPTO UNAVAILABLE"
  /\ packet_priority = PRIORITY_FLASH


(***************************************************************************)
(* C19: once burn() has returned, is_burned stays true, no decoded message *)
(* is sent to the feed, and neither packets_decoded nor messages_decrypted *)
(* increases, whatever the interleaving of the GUI thread and the          *)
(* processor thread.                                                       *)
(***************************************************************************)
BurnReturned == gui_pc \in {"burned", "closing", "closed"}

DecodedInFeed == Cardinality({k \in 1..Len(feed) : feed[k].kind = "decoded"})

C19_BurnIsFinal ==
  BurnReturned =>
    /\ is_burned
    /\ packets_decoded = burn_snapshot.packets_decoded
    /\ messages_decrypted = burn_snapshot.messages_decrypted
    /\ DecodedInFeed = burn_snapshot.packets_decoded

\* the part that holds in every interleaving: the flag never goes back, and
\* a decrypt_payload call that starts after burn() returned yields nothing
C19_FlagStaysAndLaterCallsFail ==
  /\ BurnReturned => is_burned /\ private_key = "zeros"
  /\ (BurnReturned /\ packets_received > burn_snapshot.packets_received
        /\ proc_pc = "handle")
       => /\ proc_result.plaintext = None
          /\ proc_result.status = "KEYS BURNED - CANNOT DECRYPT"


(***************************************************************************)
(* C20: an interval task (inflation every 6 hours, bnti every 12) is due   *)
(* exactly when it never ran or at least its interval has passed since its *)
(* recorded last run; two recorded runs of the same interval task are      *)
(* never less than one interval apart.                                     *)
(***************************************************************************)
IntervalTasks == {name \in Tasks : SCHEDULES[name].type = "interval"}

\* the hours of an interval task, as the module docstring gives them
EveryHours(name) == IF name = "inflation" THEN 6 ELSE 12

\* right after a round of is_task_due: last_runs is what the round read
JustChecked == checked_at = sched_now /\ Len(due_tasks) = Cardinality(due_found)

C20_IntervalTaskDue ==
  \A name \in IntervalTasks :
    /\ JustChecked =>
         (name \in due_found
            <=> (last_runs[name] = Never \/ sched_now - last_runs[name] >= EveryHours(name)))
    /\ prev_runs[name] # Never => last_runs[name] - prev_runs[name] >= EveryHours(name)

C20_Witness ==
  /\ prev_runs["inflation"] # Never
  /\ last_runs["inflation"] - prev_runs["inflation"] = 6
  /\ prev_runs["bnti"] # Never
  /\ last_runs["bnti"] - prev_runs["bnti"] = 12

\* a check 4 hours after the last run finds inflation not due, with bnti due
C20_WitnessNotDue ==
  /\ JustChecked
  /\ last_runs["inflation"] # Never /\ sched_now - last_runs["inflation"] = 4
  /\ "inflation" \notin due_found /\ "bnti" \in due_found


(***************************************************************************)
(* C21: the pentagon task is due only while the hour in New York is in the *)
(* night window that crosses midnight (18 or later, or before 6) and, if   *)
(* it ran before, at least 60 minutes have passed since its recorded last  *)
(* run; outside the window it is never due, whatever its last run.         *)
(***************************************************************************)
NightHour(hour) == hour >= 18 \/ hour < 6

C21_PentagonDueInWindow ==
  JustChecked =>
    /\ "pentagon" \in due_found
         => /\ NightHour(HourIn("EST", sched_now))
            /\ last_runs["pentagon"] # Never => sched_now - last_runs["pentagon"] >= 1
    /\ ~NightHour(HourIn("EST", sched_now)) => "pentagon" \notin due_found

\* a check at 20:00 in New York, two hours after the last run, finds it due
C21_Witness ==
  /\ JustChecked
  /\ HourIn("EST", sched_now) = 20
  /\ last_runs["pentagon"] # Never /\ sched_now - last_runs["pentagon"] = 2
  /\ "pentagon" \in due_found

\* a check at 06:00 in New York, two hours after the last run, finds it not due
C21_WitnessOutside ==
  /\ JustChecked
  /\ HourIn("EST", sched_now) = 6
  /\ last_runs["pentagon"] # Never /\ sched_now - last_runs["pentagon"] = 2
  /\ "pentagon" \notin due_found

\* a second check in the hour of the run, inside the window, finds it not due
C21_WitnessTooSoon ==
  /\ JustChecked
  /\ NightHour(HourIn("EST", sched_now))
  /\ last_runs["pentagon"] = sched_now
  /\ "pentagon" \notin due_found


(***************************************************************************)
(* C22: the daily briefing is due only at or after 08:00 Istanbul time,    *)
(* and two recorded runs of it never fall on the same Istanbul calendar    *)
(* day.                                                                    *)
(***************************************************************************)
\* the Istanbul calendar day of the host's naive time t
IstanbulDay(t) == (t - host_clock.ahead + 48) \div 24

C22_DailyOncePerIstanbulDay ==
  /\ (JustChecked /\ "daily_briefing" \in due_found) => HourIn("TRT", sched_now) >= 8
  /\ prev_runs["daily_briefing"] # Never
       => IstanbulDay(prev_runs["daily_briefing"]) < IstanbulDay(last_runs["daily_briefing"])

\* the part that holds: never due before 08:00 in Istanbul
C22_NeverBeforeEight ==
  (JustChecked /\ "daily_briefing" \in due_found) => HourIn("TRT", sched_now) >= 8

\* a check before 08:00 in Istanbul finds the briefing, which never ran, not due
C22_WitnessEarly ==
  /\ JustChecked
  /\ HourIn("TRT", sched_now) = 6
  /\ last_runs["daily_briefing"] = Never
  /\ "daily_briefing" \notin due_found


(***************************************************************************)
(* C28: a run_task whose work fails (run_module returns False, or an       *)
(* exception is raised) leaves last_runs as it was and returns False.      *)
(***************************************************************************)
\* a step of run_task for the task at the head of due_tasks
RunTaskStep == sched_pc = "running" /\ due_tasks' = Tail(due_tasks)

C28_FailedRunNotRecorded ==
  [][(RunTaskStep /\ run_result'.outcome \in {"failed", "raised"})
       => (last_runs' = last_runs /\ ~run_result'.returned)]_vars

\* the part that holds: a run that raised is not recorded and returns False
C28_RaisedRunNotRecorded ==
  [][(RunTaskStep /\ run_result'.outcome = "raised")
       => (last_runs' = last_runs /\ ~run_result'.returned)]_vars

\* run_module returned False for inflation, which was checked again at once
\* and found not due
C28_WitnessFailedNotDue ==
  /\ JustChecked
  /\ run_result = [outcome |-> "failed", returned |-> TRUE]
  /\ last_runs["inflation"] = sched_now
  /\ "inflation" \notin due_found


(***************************************************************************)
(* C29: the receiver's counters.  In every state packets_decoded is at     *)
(* most packets_received, and packets_received rises by one exactly when   *)
(* the processor takes a trigger from the queue.  packets_decoded rises,   *)
(* by one, exactly when a message goes to the feed as decoded.  With the   *)
(* cryptography package, whenever the processor is not inside the handling *)
(* of a trigger, packets_decoded equals messages_decrypted; without the    *)
(* package messages_decrypted stays 0.                                     *)
(***************************************************************************)
\* the processor is between two triggers, or has stopped
BetweenTriggers == proc_pc \in {"get", "stopped"}

\* the feed grows by a decoded message in this step
DeliveredAsDecoded ==
  /\ Len(feed') = Len(feed) + 1
  /\ feed'[Len(feed')].kind = "decoded"

C29_CountersWithCrypto ==
  /\ [](/\ packets_decoded <= packets_received
        /\ (rx_crypto_available /\ BetweenTriggers) => packets_decoded = messages_decrypted
        /\ ~rx_crypto_available => messages_decrypted = 0)
  /\ [][/\ packets_received' = IF data_queue # << >> /\ data_queue' = Tail(data_queue)
                                THEN packets_received + 1 ELSE packets_received
        /\ packets_decoded' = IF DeliveredAsDecoded THEN packets_decoded + 1
                              ELSE packets_decoded
        /\ messages_decrypted' \in {messages_decrypted, messages_decrypted + 1}]_vars

\* with the package: two triggers taken, the packet decoded and counted by
\* both counters, the text that is no packet counted by neither
C29_Witness ==
  /\ rx_crypto_available /\ BetweenTriggers
  /\ packets_received = 2
  /\ packets_decoded = 1 /\ messages_decrypted = 1
  /\ Len(feed) = 2

\* without the package: two triggers shown as decoded, none decrypted
C29_WitnessNoCrypto ==
  /\ ~rx_crypto_available /\ BetweenTriggers
  /\ packets_received = 2 /\ packets_decoded = 2
  /\ messages_decrypted = 0

\* the statement for every state, with or without the package
C29_CountersAgree ==
  /\ packets_decoded <= packets_received
  /\ packets_decoded = messages_decrypted

\* the equality between triggers, with or without the package
C29_CountersAgreeBetweenTriggers ==
  BetweenTriggers => packets_decoded = messages_decrypted


(***************************************************************************)
(* C23: extract ignores every bit after the declared payload: for every    *)
(* payload p whose frame fits in the extractor's bit limit and every bit   *)
(* sequence t, extract of frame(p) followed by t returns exactly p.        *)
(***************************************************************************)
C23_ExtractIgnoresTail ==
  stage_op = "extract" => stage_out = stage_payload

\* a two-byte payload followed by 16 more bits
C23_Witness ==
  /\ stage_op = "extract"
  /\ Len(stage_payload) = MaxLen
  /\ Len(stage_bits) = Len(FrameBits(stage_payload)) + 16
  /\ stage_out = stage_payload

\* a payload of 255 bytes followed by the 8 bits that fill the bit limit
C23_WitnessLong ==
  /\ stage_op = "extract"
  /\ Len(stage_payload) = MaxMessageBytes - 1
  /\ Len(stage_bits) = MaxBits
  /\ stage_out = stage_payload


(***************************************************************************)
(* C24: spread maps every input bit, in order, to one block of 31 chips    *)
(* equal to the PN code when the bit is 1 and to the negated PN code when  *)
(* it is 0; the chip stream has exactly 31 times as many elements as there *)
(* are bits, and every chip is +1 or -1.                                   *)
(***************************************************************************)
C24_SpreadBlocks ==
  stage_op = "spread"
    => /\ Len(PNC_KEY) = 31
       /\ Len(stage_out) = 31 * Len(stage_bits)
       /\ \A b \in 1..Len(stage_bits) : \A i \in 1..31 :
            stage_out[31 * (b - 1) + i] = IF stage_bits[b] = 1 THEN PNC_KEY[i] ELSE -PNC_KEY[i]
       /\ \A c \in 1..Len(stage_out) : stage_out[c] \in {-1, 1}

C24_Witness ==
  /\ stage_op = "spread"
  /\ stage_bits = << 1, 0, 1 >>
  /\ Len(stage_out) = 93


(***************************************************************************)
(* C25: the correlator reads the waveform in consecutive, non-overlapping  *)
(* windows of 31 * samples_per_chip samples from sample 0, one bit per     *)
(* whole window; the bit is 1 exactly when the dot product of the window's *)
(* 31 chip averages with the PN code is strictly positive, else 0.         *)
(***************************************************************************)
\* samples_per_chip times the average of chip i of window b (both from 1) of
\* the waveform multiplied by the carrier replica
ChipSum(samples, rate, b, i) ==
  LET spc == SamplesPerChip(rate)
      first == (b - 1) * 31 * spc + (i - 1) * spc
      sum[j \in 0..spc] ==
        IF j = 0 THEN 0
        ELSE sum[j - 1] + samples[first + j] * CarrierWave(first + j - 1, Len(samples), rate)
  IN  sum[spc]

\* samples_per_chip times the dot product of the chip averages of window b
\* with the PN code
WindowDot(samples, rate, b) ==
  LET dot[i \in 0..31] ==
        IF i = 0 THEN 0 ELSE dot[i - 1] + PNC_KEY[i] * ChipSum(samples, rate, b, i)
  IN  dot[31]

C25_CorrelatorWindows ==
  stage_op \in {"correlate", "masker_correlate"}
    => /\ SamplesPerChip(stage_rate) >= 1
       /\ Len(stage_out) = Min(IF stage_op = "correlate" THEN MaxBits ELSE MaskerMaxBits,
                               Len(stage_samples) \div (31 * SamplesPerChip(stage_rate)))
       /\ \A b \in 1..Len(stage_out) :
            stage_out[b] = IF WindowDot(stage_samples, stage_rate, b) > 0 THEN 1 ELSE 0

\* two windows and three samples over: a positive and a negative dot product
C25_Witness ==
  /\ stage_op = "correlate"
  /\ Len(stage_samples) = 2 * 31 * SamplesPerChip(stage_rate) + 3
  /\ WindowDot(stage_samples, stage_rate, 1) > 0 /\ stage_out[1] = 1
  /\ WindowDot(stage_samples, stage_rate, 2) < 0 /\ stage_out[2] = 0

\* the same in the masker, at 44 samples a chip
C25_WitnessMasker ==
  /\ stage_op = "masker_correlate"
  /\ Len(stage_samples) = 2 * 31 * 44 + 3
  /\ WindowDot(stage_samples, stage_rate, 1) > 0 /\ stage_out[1] = 1
  /\ WindowDot(stage_samples, stage_rate, 2) < 0 /\ stage_out[2] = 0

\* a dot product of exactly zero gives bit 0
C25_WitnessZero ==
  /\ stage_op = "correlate"
  /\ Len(stage_out) = 2
  /\ WindowDot(stage_samples, stage_rate, 1) = 0 /\ stage_out[1] = 0


(***************************************************************************)
(* C26: modulate repeats every chip samples_per_chip times, where          *)
(* samples_per_chip is sample_rate * chip_duration (1 ms) rounded down to  *)
(* a whole number, for every sample rate; the modulated signal has exactly *)
(* number_of_chips * samples_per_chip samples, and the decoder, computing  *)
(* samples_per_chip from the same rate, finds one window per 31 chips.     *)
(***************************************************************************)
C26_ChipsRepeatedRoundedDown ==
  stage_op = "modulate"
    => LET spc == stage_rate \div 1000
           L == Len(stage_samples) * spc
       IN  /\ Len(stage_out) = L
           /\ \A n \in 1..L :
                stage_out[n] = stage_samples[((n - 1) \div spc) + 1]
                                 * CarrierWave(n - 1, L, stage_rate)
           /\ spc >= 1 => 31 * Len(DemodulateBits(stage_out, stage_rate, MaxBits))
                            = Len(stage_samples)

\* at 1600 samples a second every chip is one sample
C26_Witness ==
  /\ stage_op = "modulate"
  /\ stage_rate = 1600
  /\ Len(stage_samples) = 62
  /\ Len(stage_out) = 62

\* at the default rate every chip is 44 samples
C26_WitnessDefaultRate ==
  /\ stage_op = "modulate"
  /\ stage_rate = SAMPLE_RATE
  /\ Len(stage_out) = 44 * Len(stage_samples)

\* the statement with samples_per_chip rounded to the nearest whole number
C26_ChipsRepeatedRounded ==
  stage_op = "modulate"
    => Len(stage_out) = Len(stage_samples) * ((stage_rate + 500) \div 1000)


(***************************************************************************)
(* C27: the Studio extractor's bit limit never cuts a blob the encoder     *)
(* accepted: for every non-empty message and password do_encode accepts,   *)
(* with a carrier long enough and no bit flipped, extract_from_audio       *)
(* returns the complete sealed blob embed_in_audio was given.              *)
(***************************************************************************)
C27_ExtractReturnsSealedBlob ==
  stage_op = "decoded" => stage_out = stage_payload

\* what holds: a sealed blob of at most MaxMessageBytes bytes comes back
\* whole, a longer one cut to its first MaxMessageBytes bytes
C27_SealedBlobCutAtLimit ==
  stage_op = "decoded"
    => stage_out = SubSeq(stage_payload, 1, Min(Len(stage_payload), MaxMessageBytes))

\* the longest blob that comes back whole
C27_WitnessLongest ==
  /\ stage_op = "decoded"
  /\ Len(stage_payload) = MaxMessageBytes
  /\ stage_out = stage_payload

\* a message of 218 characters: the blob of 257 bytes comes back without its
\* last byte
C27_WitnessCut ==
  /\ stage_op = "decoded"
  /\ Len(stage_payload) = MaxMessageBytes + 1
  /\ Len(stage_out) = MaxMessageBytes

====
